---- MODULE Spec2Model ----
(***************************************************************************)
(* Model of the superannuation micro-savings engine:                       *)
(*   money.js   - the money codec (parseMoney, moneyToFixed2, ceilTo100)   *)
(*   time.js    - the timestamp codec (parse / format, fixed +05:30 zone)  *)
(*   engine.js  - record validation, the q / p / k temporal rules          *)
(*   app.js     - the mapping of errors to response statuses               *)
(* Money is an integer number of paise.  JavaScript arrays are 0-based and *)
(* TLA+ sequences 1-based: element i of an array is s[i + 1].              *)
(***************************************************************************)
EXTENDS Integers, Sequences, FiniteSets, TLC

VARIABLES
    pc,                 \* position of the running call
    arg,                \* argument of a codec call
    ret,                \* value returned by a codec call
    transactions,       \* validTransactions (array of transaction records)
    qPeriods,           \* parsed override periods
    pPeriods,           \* parsed additive periods
    kPeriods,           \* parsed aggregation windows
    savingsByDates,     \* result of buildSavingsByKPeriods
    payload,            \* the request: endpoint and raw records
    idx,                \* loop index i of the record loop
    invalid,            \* invalid[] of the running call
    duplicates,         \* duplicates[] of the running call
    seen,               \* the seen Map (timestamp text -> index)
    response,           \* status and error message of the finished call
    requestCount,       \* metrics.requestCount of the server
    waiting,            \* the requests whose handler is suspended at an await
    uiHtml              \* uiHtmlPromise: "pending" or "read"

vars == <<pc, arg, ret, transactions, qPeriods, pPeriods, kPeriods,
          savingsByDates, payload, idx, invalid, duplicates, seen, response,
          requestCount, waiting, uiHtml>>

codecVars == <<arg, ret>>
rulesVars == <<transactions, qPeriods, pPeriods, kPeriods, savingsByDates>>
batchVars == <<payload, idx, invalid, duplicates, seen, response>>
serverVars == <<requestCount, waiting, uiHtml>>

None == [t |-> "none"]

\* ------------------------------------------------------------------------
\* Generic helpers
\* ------------------------------------------------------------------------

Range(s) == {s[n] : n \in 1..Len(s)}

\* Array.prototype.sort with a comparator: a stable sort (insertion of each
\* element before the first element that compares greater).
StableSort(s, compare) ==
    LET Insert(sorted, x) ==
            LET k == Cardinality({j \in 1..Len(sorted) : compare[sorted[j], x] <= 0})
            IN  SubSeq(sorted, 1, k) \o <<x>> \o SubSeq(sorted, k + 1, Len(sorted))
        f[n \in 0..Len(s)] == IF n = 0 THEN <<>> ELSE Insert(f[n - 1], s[n])
    IN  f[Len(s)]

\* Sum of a sequence of numbers.
SumSeq(values) ==
    LET f[n \in 0..Len(values)] == IF n = 0 THEN 0 ELSE f[n - 1] + values[n]
    IN  f[Len(values)]

\* All sequences over S of length 0..n.
SeqsUpTo(S, n) == UNION {[1..m -> S] : m \in 0..n}

\* BigInt % : the remainder takes the sign of the dividend.
JsRem(a, b) == IF a >= 0 THEN a % b ELSE -((-a) % b)

\* ------------------------------------------------------------------------
\* money.js
\* ------------------------------------------------------------------------

Multiple == 10000

CeilTo100NoZeroCheck(paise) == paise + (Multiple - JsRem(paise, Multiple))

ceilTo100(paise) ==
    LET remainder == JsRem(paise, Multiple)
    IN  IF remainder = 0 THEN paise ELSE paise + (Multiple - remainder)

\* ------------------------------------------------------------------------
\* engine.js : BinaryHeap (array-based max-heap; indices are 0-based)
\* ------------------------------------------------------------------------

\* Tie-break reversed: the later input wins.
HeapCompareLastInputWins(a, b) ==
    IF a.start # b.start THEN a.start - b.start ELSE a.inputOrder - b.inputOrder

\* The comparator given to the heap in applyQPeriods: greater start first,
\* and on equal start the smaller inputOrder first.
HeapCompare(a, b) ==
    IF a.start # b.start THEN a.start - b.start ELSE b.inputOrder - a.inputOrder

Swap(data, i, j) == [data EXCEPT ![i + 1] = data[j + 1], ![j + 1] = data[i + 1]]

RECURSIVE bubbleUp(_, _)
bubbleUp(data, index) ==
    IF index <= 0 THEN data
    ELSE LET parent == (index - 1) \div 2
         IN  IF HeapCompare(data[index + 1], data[parent + 1]) <= 0
             THEN data
             ELSE bubbleUp(Swap(data, index, parent), parent)

RECURSIVE bubbleDown(_, _)
bubbleDown(data, index) ==
    LET length == Len(data)
        left == 2 * index + 1
        right == 2 * index + 2
        l1 == IF left < length /\ HeapCompare(data[left + 1], data[index + 1]) > 0
              THEN left ELSE index
        largest == IF right < length /\ HeapCompare(data[right + 1], data[l1 + 1]) > 0
                   THEN right ELSE l1
    IN  IF largest = index THEN data
        ELSE bubbleDown(Swap(data, index, largest), largest)

HeapPush(data, value) == bubbleUp(Append(data, value), Len(data))

HeapPop(data) ==
    IF Len(data) = 0 THEN data
    ELSE LET last == data[Len(data)]
             rest == SubSeq(data, 1, Len(data) - 1)
         IN  IF Len(rest) > 0 THEN bubbleDown([rest EXCEPT ![1] = last], 0) ELSE rest

\* ------------------------------------------------------------------------
\* engine.js : applyQPeriods
\* ------------------------------------------------------------------------

\* Comparator of sortedQ: start ascending, then inputOrder ascending.
SortedQCompare(a, b) ==
    IF a.start # b.start THEN a.start - b.start ELSE a.inputOrder - b.inputOrder

\* while (qPointer < sortedQ.length && sortedQ[qPointer].start <= ts) push
RECURSIVE AdmitStarted(_, _, _, _)
AdmitStarted(sortedQ, heap, qPointer, ts) ==
    IF qPointer < Len(sortedQ) /\ sortedQ[qPointer + 1].start <= ts
    THEN AdmitStarted(sortedQ, HeapPush(heap, sortedQ[qPointer + 1]), qPointer + 1, ts)
    ELSE [heap |-> heap, qPointer |-> qPointer]

\* while (heap.size() > 0 && heap.peek().end < ts) heap.pop()
RECURSIVE EvictExpired(_, _)
EvictExpired(heap, ts) ==
    IF Len(heap) > 0 /\ heap[1].end < ts
    THEN EvictExpired(HeapPop(heap), ts) ELSE heap

\* The for loop over sortedTransactionIndices, from position k (0-based).
RECURSIVE QLoop(_, _, _, _, _, _)
QLoop(txs, sortedQ, order, k, heap, qPointer) ==
    IF k >= Len(order) THEN txs
    ELSE LET txIndex == order[k + 1]
             tx == txs[txIndex + 1]
             ts == tx.epochSeconds
             adm == AdmitStarted(sortedQ, heap, qPointer, ts)
             h2 == EvictExpired(adm.heap, ts)
             final == IF Len(h2) > 0 THEN h2[1].fixedPaise ELSE tx.remanentBasePaise
         IN  QLoop([txs EXCEPT ![txIndex + 1].remanentFinalPaise = final],
                   sortedQ, order, k + 1, h2, adm.qPointer)

\* The override written to the base remanent as well as to the final one.
ApplyQPeriodsClobberingBase(txs, qs, sortedTransactionIndices) ==
    IF Len(qs) = 0 THEN txs
    ELSE LET done == QLoop(txs,
                         StableSort(qs, [a \in Range(qs), b \in Range(qs) |->
                                            SortedQCompare(a, b)]),
                         sortedTransactionIndices, 0, <<>>, 0)
         IN  [n \in 1..Len(done) |->
                 [done[n] EXCEPT !.remanentBasePaise = done[n].remanentFinalPaise]]

applyQPeriods(txs, qs, sortedTransactionIndices) ==
    IF Len(qs) = 0 THEN txs
    ELSE QLoop(txs,
               StableSort(qs, [a \in Range(qs), b \in Range(qs) |-> SortedQCompare(a, b)]),
               sortedTransactionIndices, 0, <<>>, 0)

\* ------------------------------------------------------------------------
\* engine.js : applyPPeriods
\* ------------------------------------------------------------------------

\* The closing event placed at end instead of end + 1.
PEventsHalfOpen(ps) ==
    LET f[n \in 0..Len(ps)] ==
            IF n = 0 THEN <<>>
            ELSE f[n - 1] \o << [time |-> ps[n].start, delta |-> ps[n].extraPaise],
                                [time |-> ps[n].end, delta |-> -ps[n].extraPaise] >>
    IN  f[Len(ps)]

\* Two delta events per period, in input order: +extra at start, -extra at end + 1.
PEvents(ps) ==
    LET f[n \in 0..Len(ps)] ==
            IF n = 0 THEN <<>>
            ELSE f[n - 1] \o << [time |-> ps[n].start, delta |-> ps[n].extraPaise],
                                [time |-> ps[n].end + 1, delta |-> -ps[n].extraPaise] >>
    IN  f[Len(ps)]

EventCompare(a, b) == a.time - b.time

\* events.sort((a, b) => a.time - b.time)
SortedEvents(events) ==
    StableSort(events, [a \in Range(events), b \in Range(events) |-> EventCompare(a, b)])

\* while (eventPointer < events.length && events[eventPointer].time <= ts)
RECURSIVE ConsumeEvents(_, _, _, _)
ConsumeEvents(events, activeExtra, eventPointer, ts) ==
    IF eventPointer < Len(events) /\ events[eventPointer + 1].time <= ts
    THEN ConsumeEvents(events, activeExtra + events[eventPointer + 1].delta,
                       eventPointer + 1, ts)
    ELSE [activeExtra |-> activeExtra, eventPointer |-> eventPointer]

RECURSIVE PLoop(_, _, _, _, _, _)
PLoop(txs, events, order, k, activeExtra, eventPointer) ==
    IF k >= Len(order) THEN txs
    ELSE LET txIndex == order[k + 1]
             tx == txs[txIndex + 1]
             c == ConsumeEvents(events, activeExtra, eventPointer, tx.epochSeconds)
         IN  PLoop([txs EXCEPT ![txIndex + 1].remanentFinalPaise =
                                   tx.remanentFinalPaise + c.activeExtra],
                   events, order, k + 1, c.activeExtra, c.eventPointer)

\* The extra added to the base remanent: an override is lost.
RECURSIVE PLoopOnBase(_, _, _, _, _, _)
PLoopOnBase(txs, events, order, k, activeExtra, eventPointer) ==
    IF k >= Len(order) THEN txs
    ELSE LET txIndex == order[k + 1]
             tx == txs[txIndex + 1]
             c == ConsumeEvents(events, activeExtra, eventPointer, tx.epochSeconds)
         IN  PLoopOnBase([txs EXCEPT ![txIndex + 1].remanentFinalPaise =
                                         tx.remanentBasePaise + c.activeExtra],
                         events, order, k + 1, c.activeExtra, c.eventPointer)
ApplyPPeriodsOnBase(txs, ps, sortedTransactionIndices) ==
    IF Len(ps) = 0 THEN txs
    ELSE PLoopOnBase(txs, SortedEvents(PEvents(ps)), sortedTransactionIndices, 0, 0, 0)

applyPPeriods(txs, ps, sortedTransactionIndices) ==
    IF Len(ps) = 0 THEN txs
    ELSE PLoop(txs, SortedEvents(PEvents(ps)), sortedTransactionIndices, 0, 0, 0)

\* ------------------------------------------------------------------------
\* engine.js : lowerBound / upperBound / buildSavingsByKPeriods
\* ------------------------------------------------------------------------

RECURSIVE LowerBoundLoop(_, _, _, _)
LowerBoundLoop(array, target, left, right) ==
    IF left < right
    THEN LET mid == (left + right) \div 2
         IN  IF array[mid + 1] < target
             THEN LowerBoundLoop(array, target, mid + 1, right)
             ELSE LowerBoundLoop(array, target, left, mid)
    ELSE left

lowerBound(array, target) == LowerBoundLoop(array, target, 0, Len(array))

RECURSIVE UpperBoundLoop(_, _, _, _)
UpperBoundLoop(array, target, left, right) ==
    IF left < right
    THEN LET mid == (left + right) \div 2
         IN  IF array[mid + 1] <= target
             THEN UpperBoundLoop(array, target, mid + 1, right)
             ELSE UpperBoundLoop(array, target, left, mid)
    ELSE left

\* An upper bound that stops at the first element equal to the target.
UpperBoundStrict(array, target) == lowerBound(array, target)

upperBound(array, target) == UpperBoundLoop(array, target, 0, Len(array))

TxCompare(a, b) == a.epochSeconds - b.epochSeconds

\* The window sums taken over the base remanents instead of the final ones.
BuildSavingsByKPeriodsOnBase(txs, ks) ==
    LET sortedTransactions ==
            StableSort(txs, [a \in Range(txs), b \in Range(txs) |-> TxCompare(a, b)])
        times == [n \in 1..Len(sortedTransactions) |-> sortedTransactions[n].epochSeconds]
        prefix[n \in 0..Len(sortedTransactions)] ==
            IF n = 0 THEN 0 ELSE prefix[n - 1] + sortedTransactions[n].remanentBasePaise
    IN  [n \in 1..Len(ks) |->
            LET left == lowerBound(times, ks[n].start)
                rightExclusive == upperBound(times, ks[n].end)
            IN  [start |-> ks[n].startText, end |-> ks[n].endText,
                 amountPaise |-> prefix[rightExclusive] - prefix[left]]]

buildSavingsByKPeriods(txs, ks) ==
    LET sortedTransactions ==
            StableSort(txs, [a \in Range(txs), b \in Range(txs) |-> TxCompare(a, b)])
        times == [n \in 1..Len(sortedTransactions) |-> sortedTransactions[n].epochSeconds]
        prefix[n \in 0..Len(sortedTransactions)] ==
            IF n = 0 THEN 0 ELSE prefix[n - 1] + sortedTransactions[n].remanentFinalPaise
    IN  [n \in 1..Len(ks) |->
            LET left == lowerBound(times, ks[n].start)
                rightExclusive == upperBound(times, ks[n].end)
            IN  [start |-> ks[n].startText, end |-> ks[n].endText,
                 amountPaise |-> prefix[rightExclusive] - prefix[left]]]

\* ------------------------------------------------------------------------
\* engine.js : applyTemporalRules
\* ------------------------------------------------------------------------

\* The indices left in input order: the sort by epochSeconds left out.
InputOrderIndices(txs) == [n \in 1..Len(txs) |-> n - 1]

\* validTransactions.map((_, index) => index).sort(by epochSeconds), 0-based.
SortedTransactionIndices(txs) ==
    LET indices == [n \in 1..Len(txs) |-> n - 1]
    IN  StableSort(indices, [a \in Range(indices), b \in Range(indices) |->
                                txs[a + 1].epochSeconds - txs[b + 1].epochSeconds])

\* ------------------------------------------------------------------------
\* time.js : texts are sequences of one-character strings; an instant
\* (epoch seconds) is kept as [d |-> days, s |-> second of the day], that is
\* epochSeconds = d * 86400 + s with 0 <= s < 86400, because the instants of
\* the years 0100..9999 do not fit a 32-bit integer.
\* ------------------------------------------------------------------------

IST_OFFSET_SECONDS == 5 * 3600 + 30 * 60
SecondsPerDay == 86400

DigitChars == <<"0", "1", "2", "3", "4", "5", "6", "7", "8", "9">>
IsDigit(c) == \E k \in 1..10 : DigitChars[k] = c
DigitVal(c) == (CHOOSE k \in 1..10 : DigitChars[k] = c) - 1
\* The white space and line terminators String.prototype.trim removes.  A
\* character that a string of the model cannot hold is written as its code
\* point.
WhiteSpace ==
    {" ", "\t", "\n", "\r", "\f", "U+000B", "U+00A0", "U+1680", "U+2000", "U+2001",
     "U+2002", "U+2003", "U+2004", "U+2005", "U+2006", "U+2007", "U+2008", "U+2009",
     "U+200A", "U+2028", "U+2029", "U+202F", "U+205F", "U+3000", "U+FEFF"}

\* String.prototype.trim
RECURSIVE TrimStart(_)
TrimStart(s) == IF Len(s) > 0 /\ s[1] \in WhiteSpace THEN TrimStart(Tail(s)) ELSE s
RECURSIVE TrimEnd(_)
TrimEnd(s) ==
    IF Len(s) > 0 /\ s[Len(s)] \in WhiteSpace THEN TrimEnd(SubSeq(s, 1, Len(s) - 1)) ELSE s
Trim(s) == TrimEnd(TrimStart(s))

\* Number(text) of a run of decimal digits s[a..b].
DigitsValue(s, a, b) ==
    LET f[n \in (a - 1)..b] == IF n = a - 1 THEN 0 ELSE 10 * f[n - 1] + DigitVal(s[n])
    IN  f[b]

\* Decimal text of n >= 0 (Number.prototype.toString / BigInt.prototype.toString).
RECURSIVE DecimalText(_)
DecimalText(n) ==
    IF n < 10 THEN <<DigitChars[n + 1]>>
    ELSE DecimalText(n \div 10) \o <<DigitChars[(n % 10) + 1]>>

\* String.prototype.padStart(width, '0')
RECURSIVE PadStart(_, _)
PadStart(s, width) == IF Len(s) >= width THEN s ELSE PadStart(<<"0">> \o s, width)

\* TIMESTAMP_RE = /^(\d{4})-(\d{2})-(\d{2}) (\d{2}):(\d{2}):(\d{2})$/
TimestampSeparators == [n \in {5, 8, 11, 14, 17} |->
    CASE n = 5 -> "-" [] n = 8 -> "-" [] n = 11 -> " " [] n = 14 -> ":" [] n = 17 -> ":"]
MatchesTimestampRe(s) ==
    /\ Len(s) = 19
    /\ \A n \in 1..19 :
          IF n \in DOMAIN TimestampSeparators
          THEN s[n] = TimestampSeparators[n] ELSE IsDigit(s[n])

\* Calendar arithmetic of Date (proleptic Gregorian, days since 1970-01-01).
InLeapYear(y) == (y % 4 = 0 /\ y % 100 # 0) \/ y % 400 = 0
DayFromYear(y) ==
    365 * (y - 1970) + ((y - 1969) \div 4) - ((y - 1901) \div 100) + ((y - 1601) \div 400)
DaysBeforeMonth(y, m0) ==
    LET common == <<0, 31, 59, 90, 120, 151, 181, 212, 243, 273, 304, 334>>
    IN  common[m0 + 1] + (IF m0 >= 2 /\ InLeapYear(y) THEN 1 ELSE 0)

\* MakeDay(year, month, date) with month 0-based and possibly out of 0..11.
MakeDay(year, month0, date) ==
    LET ym == year + (month0 \div 12)
        mn == month0 % 12
    IN  DayFromYear(ym) + DaysBeforeMonth(ym, mn) + date - 1

NormalizeInstant(days, seconds) ==
    [d |-> days + (seconds \div SecondsPerDay), s |-> seconds % SecondsPerDay]

\* Date.UTC(year, month, day, hour, minute, second), in seconds: a year in
\* 0..99 is read as 1900 + year.
DateUTC(year, month0, day, hour, minute, second) ==
    LET fullYear == IF year >= 0 /\ year <= 99 THEN 1900 + year ELSE year
    IN  NormalizeInstant(MakeDay(fullYear, month0, day),
                         hour * 3600 + minute * 60 + second)

\* getUTCFullYear / getUTCMonth / getUTCDate / getUTCHours / ... of a Date.
UTCFields(t) ==
    LET z == t.d + 719468
        era == z \div 146097
        doe == z - era * 146097
        yoe == (doe - (doe \div 1460) + (doe \div 36524) - (doe \div 146096)) \div 365
        doy == doe - (365 * yoe + (yoe \div 4) - (yoe \div 100))
        mp == (5 * doy + 2) \div 153
        day == doy - ((153 * mp + 2) \div 5) + 1
        month == IF mp < 10 THEN mp + 3 ELSE mp - 9
        year == yoe + era * 400 + (IF month <= 2 THEN 1 ELSE 0)
    IN  [year |-> year, month0 |-> month - 1, date |-> day,
         hours |-> t.s \div 3600, minutes |-> (t.s % 3600) \div 60, seconds |-> t.s % 60]

TimestampFormatText == "YYYY-MM-DD HH:mm:ss"

\* A thrown Error: the field path that qualifies the message and its text.
Failure(path, text) == [ok |-> FALSE, path |-> path, text |-> text]

\* A raw JSON value: absent (undefined), a string or a number.
Undefined == [t |-> "undefined"]
Str(chars) == [t |-> "string", s |-> chars]
Num(chars) == [t |-> "number", s |-> chars]
IsString(v) == v.t = "string"

parseTimestampToEpochSeconds(value, fieldName) ==
    IF ~IsString(value)
    THEN Failure(fieldName, "must be a string in format YYYY-MM-DD HH:mm:ss")
    ELSE LET trimmed == Trim(value.s)
         IN  IF ~MatchesTimestampRe(trimmed)
             THEN Failure(fieldName, "must follow YYYY-MM-DD HH:mm:ss")
             ELSE LET year == DigitsValue(trimmed, 1, 4)
                      month == DigitsValue(trimmed, 6, 7)
                      day == DigitsValue(trimmed, 9, 10)
                      hour == DigitsValue(trimmed, 12, 13)
                      minute == DigitsValue(trimmed, 15, 16)
                      second == DigitsValue(trimmed, 18, 19)
                      utc == DateUTC(year, month - 1, day, hour, minute, second)
                      asUtc == UTCFields(utc)
                  IN  IF \/ asUtc.year # year
                         \/ asUtc.month0 + 1 # month
                         \/ asUtc.date # day
                         \/ asUtc.hours # hour
                         \/ asUtc.minutes # minute
                         \/ asUtc.seconds # second
                      THEN Failure(fieldName, "is not a valid calendar timestamp")
                      ELSE [ok |-> TRUE,
                            value |-> NormalizeInstant(utc.d, utc.s - IST_OFFSET_SECONDS)]

formatEpochSecondsToTimestamp(epochSeconds) ==
    LET d == UTCFields(NormalizeInstant(epochSeconds.d, epochSeconds.s + IST_OFFSET_SECONDS))
    IN  DecimalText(d.year) \o <<"-">> \o PadStart(DecimalText(d.month0 + 1), 2)
        \o <<"-">> \o PadStart(DecimalText(d.date), 2) \o <<" ">>
        \o PadStart(DecimalText(d.hours), 2) \o <<":">> \o PadStart(DecimalText(d.minutes), 2)
        \o <<":">> \o PadStart(DecimalText(d.seconds), 2)

\* parseTimestampLike(value, fallbackValue, fieldName)
parseTimestampLike(value, fallbackValue, fieldName) ==
    LET chosen == IF IsString(value) THEN value ELSE fallbackValue
    IN  IF ~IsString(chosen) THEN Failure(fieldName, "is required")
        ELSE [ok |-> TRUE, value |-> chosen]

\* An instant as one integer, for the instants that fit (years 1902..2037).
EpochInt(t) == t.d * SecondsPerDay + t.s
InstantOf(n) == NormalizeInstant(0, n)

\* ------------------------------------------------------------------------
\* money.js : parseMoney, moneyToFixed2, validateMoneyRange
\* ------------------------------------------------------------------------

\* Number.prototype.toString of the numbers Number.isFinite refuses.
NonFiniteTexts ==
    { <<"I", "n", "f", "i", "n", "i", "t", "y">>,
      <<"-", "I", "n", "f", "i", "n", "i", "t", "y">>,
      <<"N", "a", "N">> }

\* normalizeMoneyInput: the text of a finite number, the trimmed string.
normalizeMoneyInput(raw) ==
    IF raw.t = "number"
    THEN IF raw.s \in NonFiniteTexts
         THEN [ok |-> FALSE, text |-> "must be a finite number"]
         ELSE [ok |-> TRUE, value |-> raw.s]
    ELSE IF raw.t = "string"
         THEN LET trimmed == Trim(raw.s)
              IN  IF Len(trimmed) = 0 THEN [ok |-> FALSE, text |-> "must not be empty"]
                  ELSE [ok |-> TRUE, value |-> trimmed]
         ELSE [ok |-> FALSE, text |-> "must be a number or numeric string"]

\* MONEY_RE = /^([+-]?)(\d+)(?:\.(\d+))?$/ : the groups, or ok = FALSE.
MatchMoneyRe(text) ==
    LET signLen == IF Len(text) > 0 /\ text[1] \in {"+", "-"} THEN 1 ELSE 0
        body == SubSeq(text, signLen + 1, Len(text))
        intLen == Cardinality({k \in 1..Len(body) : \A j \in 1..k : IsDigit(body[j])})
        hasFrac == intLen < Len(body)
        fracOk == /\ body[intLen + 1] = "."
                  /\ Len(body) >= intLen + 2
                  /\ \A j \in (intLen + 2)..Len(body) : IsDigit(body[j])
    IN  IF intLen >= 1 /\ (~hasFrac \/ fracOk)
        THEN [ok |-> TRUE,
              sign |-> IF signLen = 1 THEN text[1] ELSE "",
              int |-> SubSeq(body, 1, intLen),
              frac |-> IF hasFrac THEN SubSeq(body, intLen + 2, Len(body)) ELSE <<>>]
        ELSE [ok |-> FALSE]

\* The third fractional digit dropped instead of rounded half-up.
MoneyOfMatchTruncating(match) ==
    IF ~match.ok THEN [ok |-> FALSE, text |-> "must be a valid decimal value"]
    ELSE LET sign == IF match.sign = "-" THEN -1 ELSE 1
             intPart == DigitsValue(match.int, 1, Len(match.int))
             frac == match.frac
             first == IF Len(frac) >= 1 THEN DigitVal(frac[1]) ELSE 0
             second == IF Len(frac) >= 2 THEN DigitVal(frac[2]) ELSE 0
         IN  [ok |-> TRUE, value |-> sign * (intPart * 100 + first * 10 + second)]

\* parseMoney after MONEY_RE.exec: the rounding to two decimals.
MoneyOfMatch(match) ==
    IF ~match.ok THEN [ok |-> FALSE, text |-> "must be a valid decimal value"]
    ELSE LET sign == IF match.sign = "-" THEN -1 ELSE 1
             intPart == DigitsValue(match.int, 1, Len(match.int))
             frac == match.frac
             first == IF Len(frac) >= 1 THEN DigitVal(frac[1]) ELSE 0
             second == IF Len(frac) >= 2 THEN DigitVal(frac[2]) ELSE 0
             third == IF Len(frac) >= 3 THEN DigitVal(frac[3]) ELSE 0
             cents0 == first * 10 + second
             cents1 == IF third >= 5 THEN cents0 + 1 ELSE cents0
             whole == IF cents1 >= 100 THEN intPart + 1 ELSE intPart
             cents == IF cents1 >= 100 THEN cents1 - 100 ELSE cents1
         IN  [ok |-> TRUE, value |-> sign * (whole * 100 + cents)]

\* parseMoney after normalizeMoneyInput
MoneyOfText(text) == IF ~text.ok THEN text ELSE MoneyOfMatch(MatchMoneyRe(text.value))

parseMoney(raw) == MoneyOfText(normalizeMoneyInput(raw))

\* validateMoneyRange: TRUE when it returns, FALSE when it throws.
validateMoneyRange(paise, minInclusive, maxExclusive) ==
    ~(paise < minInclusive \/ paise >= maxExclusive)

\* ------------------------------------------------------------------------
\* engine.js : errors.  ApiError carries a status; any other Error does not
\* and is answered with status 500 by createServer.
\* ------------------------------------------------------------------------

MAX_AMOUNT_RUPEES == 500000
MAX_AMOUNT_PAISE == MAX_AMOUNT_RUPEES * 100

ApiError(status, path, text) ==
    [ok |-> FALSE, api |-> TRUE, status |-> status, path |-> path, text |-> text]
PlainError(path, text) ==
    [ok |-> FALSE, api |-> FALSE, status |-> 0, path |-> path, text |-> text]
Ok(value) == [ok |-> TRUE, value |-> value]

\* catch (error) { throw new ApiError(400, `${path} ${error.message}`) }
RethrownWithPath(r, path) == IF r.ok THEN Ok(r.value) ELSE ApiError(400, path, r.text)

\* parseNumericField(raw, path)
parseNumericField(raw, path) == RethrownWithPath(parseMoney(raw), path)

\* catch (error) { throw new ApiError(400, error.message) }; the instant is
\* kept as one integer.
RethrownInstant(r) == IF r.ok THEN Ok(EpochInt(r.value)) ELSE ApiError(400, r.path, r.text)

\* parsePeriodTimestamp(raw, path)
parsePeriodTimestamp(raw, path) == RethrownInstant(parseTimestampToEpochSeconds(raw, path))

\* getTimestampField(record)
getTimestampField(record) ==
    parseTimestampLike(record.timestamp, record.date, <<"timestamp">>)

\* The record built at the end of parseTransactionInput and
\* buildTransactionFromExpense.
Transaction(timestamp, epochSeconds, amountPaise, ceilingPaise, index) ==
    [timestamp |-> timestamp,
     epochSeconds |-> epochSeconds,
     amountPaise |-> amountPaise,
     ceilingPaise |-> ceilingPaise,
     remanentBasePaise |-> ceilingPaise - amountPaise,
     remanentFinalPaise |-> ceilingPaise - amountPaise,
     inputIndex |-> index]

\* buildTransactionFromExpense once each field is read: ts from
\* getTimestampField, ep from parseTimestampToEpochSeconds, am from
\* parseNumericField.  A field is looked at only when the fields before it
\* were read without a throw.
ExpenseOf(path, index, ts, ep, am) ==
    IF ~ts.ok THEN ApiError(400, path \o ts.path, ts.text)
    ELSE IF ~ep.ok THEN ApiError(400, ep.path, ep.text)
    ELSE IF ~am.ok THEN am
    ELSE IF ~validateMoneyRange(am.value, 0, MAX_AMOUNT_PAISE)
    THEN PlainError(path \o <<"amount">>, "out of allowed range")
    ELSE Ok(Transaction(ts.value.s, EpochInt(ep.value), am.value, ceilTo100(am.value), index))

\* buildTransactionFromExpense(expense, index)
buildTransactionFromExpense(expense, index) ==
    ExpenseOf(<<"expenses", index>>, index,
              getTimestampField(expense),
              parseTimestampToEpochSeconds(getTimestampField(expense).value,
                                           <<"expenses", index, "timestamp">>),
              parseNumericField(expense.amount, <<"expenses", index, "amount">>))

\* parseTransactionInput once each field is read: ce is the ceiling, from
\* the record's own field when it has one and from ceilTo100 otherwise.
TransactionOf(txPath, index, ts, ep, am, ce) ==
    IF ~ts.ok THEN ApiError(400, txPath \o ts.path, ts.text)
    ELSE IF ~ep.ok THEN ApiError(400, ep.path, ep.text)
    ELSE IF ~am.ok THEN am
    ELSE IF ~validateMoneyRange(am.value, 0, MAX_AMOUNT_PAISE)
    THEN PlainError(txPath \o <<"amount">>, "out of allowed range")
    ELSE IF ~ce.ok THEN ce
    ELSE IF ce.value < am.value
    THEN ApiError(400, txPath \o <<"ceiling">>, "cannot be less than amount")
    ELSE IF JsRem(ce.value, 10000) # 0
    THEN ApiError(400, txPath \o <<"ceiling">>, "must be a multiple of 100")
    ELSE Ok(Transaction(ts.value.s, EpochInt(ep.value), am.value, ce.value, index))

\* The record's own ceiling ignored: always ceilTo100(amount).
ParseTransactionInputOwnCeilingIgnored(transaction, index, sourceField) ==
    TransactionOf(<<sourceField, index>>, index,
        getTimestampField(transaction),
        parseTimestampToEpochSeconds(getTimestampField(transaction).value,
                                     <<sourceField, index, "timestamp">>),
        parseNumericField(transaction.amount, <<sourceField, index, "amount">>),
        Ok(ceilTo100(parseNumericField(transaction.amount,
                                       <<sourceField, index, "amount">>).value)))

\* parseTransactionInput(transaction, index, sourceField)
parseTransactionInput(transaction, index, sourceField) ==
    TransactionOf(<<sourceField, index>>, index,
        getTimestampField(transaction),
        parseTimestampToEpochSeconds(getTimestampField(transaction).value,
                                     <<sourceField, index, "timestamp">>),
        parseNumericField(transaction.amount, <<sourceField, index, "amount">>),
        IF transaction.ceiling # Undefined
        THEN parseNumericField(transaction.ceiling, <<sourceField, index, "ceiling">>)
        ELSE Ok(ceilTo100(parseNumericField(transaction.amount,
                                            <<sourceField, index, "amount">>).value)))

\* The fraction written without padStart(2, '0'): 5 hundredths read back as 50.
NumberOfDecimalTextUnpadded(negative, whole, frac) ==
    LET digits == DecimalText(whole) \o
                  (IF frac = 0 THEN <<>> ELSE <<".">> \o DecimalText(frac))
    IN  Num(IF negative /\ (whole # 0 \/ frac # 0) THEN <<"-">> \o digits ELSE digits)

\* moneyToFixed2(paise): the Number of the two-decimal text.  A Number is
\* kept as the text Number.prototype.toString gives for it: no trailing
\* zero in the fraction, no "." when the fraction is zero, "0" for -0.
NumberOfDecimalText(negative, whole, frac) ==
    LET digits == DecimalText(whole) \o
                  (IF frac = 0 THEN <<>>
                   ELSE IF frac % 10 = 0 THEN <<".", DigitChars[(frac \div 10) + 1]>>
                   ELSE <<".">> \o PadStart(DecimalText(frac), 2))
    IN  Num(IF negative /\ (whole # 0 \/ frac # 0) THEN <<"-">> \o digits ELSE digits)

moneyToFixed2(paise) ==
    LET negative == paise < 0
        abs == IF negative THEN -paise ELSE paise
    IN  NumberOfDecimalText(negative, abs \div 100, abs % 100)

\* totalsFromTransactions(transactions)
totalsFromTransactions(txs) ==
    [transactionsTotalAmount |->
         moneyToFixed2(SumSeq([n \in 1..Len(txs) |-> txs[n].amountPaise])),
     transactionsTotalCeiling |->
         moneyToFixed2(SumSeq([n \in 1..Len(txs) |-> txs[n].ceilingPaise])),
     transactionsTotalRemanent |->
         moneyToFixed2(SumSeq([n \in 1..Len(txs) |-> txs[n].remanentFinalPaise]))]

\* The map at the end of applyTemporalRules.
SavingsEntries(txs, ks) ==
    LET built == buildSavingsByKPeriods(txs, ks)
    IN  [n \in 1..Len(built) |->
            [start |-> built[n].start, end |-> built[n].end,
             amount |-> moneyToFixed2(built[n].amountPaise),
             amountPaise |-> built[n].amountPaise]]

\* serializeTransaction(transaction)
serializeTransaction(tx) ==
    [timestamp |-> tx.timestamp,
     amount |-> moneyToFixed2(tx.amountPaise),
     ceiling |-> moneyToFixed2(tx.ceilingPaise),
     remanent |-> moneyToFixed2(tx.remanentFinalPaise),
     remanentBase |-> moneyToFixed2(tx.remanentBasePaise),
     remanentFinal |-> moneyToFixed2(tx.remanentFinalPaise)]

SerializeAll(txs) == [n \in 1..Len(txs) |-> serializeTransaction(txs[n])]

\* buildInvalidTransaction(record, code, message)
buildInvalidTransaction(record, code, message) ==
    [transaction |-> record, code |-> code, message |-> message]

\* The body of the filterTransactions result.
FilterBody(txs, inv, savings) ==
    LET totals == totalsFromTransactions(txs)
    IN  [valid |-> SerializeAll(txs),
         invalid |-> inv,
         savingsByDates |-> [n \in 1..Len(savings) |->
             [start |-> savings[n].start, end |-> savings[n].end,
              amount |-> savings[n].amount]],
         transactionsTotalAmount |-> totals.transactionsTotalAmount,
         transactionsTotalCeiling |-> totals.transactionsTotalCeiling,
         transactionsTotalRemanent |-> totals.transactionsTotalRemanent]

\* The body of the parseTransactions result: the remanent total is the sum
\* of the base remanents.
ParseBody(txs) ==
    [transactions |-> SerializeAll(txs),
     transactionsTotalAmount |->
         moneyToFixed2(SumSeq([n \in 1..Len(txs) |-> txs[n].amountPaise])),
     transactionsTotalCeiling |->
         moneyToFixed2(SumSeq([n \in 1..Len(txs) |-> txs[n].ceilingPaise])),
     transactionsTotalRemanent |->
         moneyToFixed2(SumSeq([n \in 1..Len(txs) |-> txs[n].remanentBasePaise]))]

\* The seen Map: entries [key, value] in insertion order.
SeenHas(map, key) == \E n \in 1..Len(map) : map[n].key = key
SeenGet(map, key) == map[CHOOSE n \in 1..Len(map) : map[n].key = key].value
SeenSet(map, key, value) == Append(map, [key |-> key, value |-> value])

\* `Duplicate timestamp with transactions[${index}]`
DuplicateMessage(index) ==
    [path |-> <<"transactions", index>>, text |-> "Duplicate timestamp with"]
RemanentMismatchMessage ==
    [path |-> <<>>, text |-> "remanent must equal ceiling - amount"]

\* The round of parseAndValidateTransactionsForValidation with the continue
\* after the REMANENT_MISMATCH report left out: the record is reported and
\* also pushed to valid.
ValidationOfMismatchFallsThrough(raw, i, acc, tx, declared) ==
    IF ~tx.ok
    THEN IF tx.api
         THEN [acc EXCEPT !.invalid =
                  Append(@, buildInvalidTransaction(raw, "INVALID_TRANSACTION",
                                [path |-> tx.path, text |-> tx.text]))]
         ELSE [acc EXCEPT !.thrown = tx]
    ELSE IF SeenHas(acc.seen, tx.value.timestamp)
    THEN [acc EXCEPT
            !.invalid = Append(@, buildInvalidTransaction(serializeTransaction(tx.value),
                            "DUPLICATE_TIMESTAMP",
                            DuplicateMessage(SeenGet(acc.seen, tx.value.timestamp)))),
            !.duplicates = Append(@, serializeTransaction(tx.value))]
    ELSE IF raw.remanent # Undefined /\ ~declared.ok
    THEN [acc EXCEPT !.seen = SeenSet(@, tx.value.timestamp, i), !.thrown = declared]
    ELSE IF raw.remanent # Undefined /\ declared.value # tx.value.remanentBasePaise
    THEN [acc EXCEPT
            !.seen = SeenSet(@, tx.value.timestamp, i),
            !.invalid = Append(@, buildInvalidTransaction(serializeTransaction(tx.value),
                            "REMANENT_MISMATCH", RemanentMismatchMessage)),
            !.valid = Append(@, tx.value)]
    ELSE [acc EXCEPT !.seen = SeenSet(@, tx.value.timestamp, i),
                     !.valid = Append(@, tx.value)]

\* The round of parseAndValidateTransactionsForValidation once raw is read:
\* tx from parseTransactionInput, declared from parseNumericField on
\* raw.remanent (looked at only when raw.remanent is defined).  acc holds
\* valid, invalid, duplicates and seen; thrown is the error that leaves the
\* loop, or None.
ValidationOf(raw, i, acc, tx, declared) ==
    IF ~tx.ok
    THEN IF tx.api
         THEN [acc EXCEPT !.invalid =
                  Append(@, buildInvalidTransaction(raw, "INVALID_TRANSACTION",
                                [path |-> tx.path, text |-> tx.text]))]
         ELSE [acc EXCEPT !.thrown = tx]
    ELSE IF SeenHas(acc.seen, tx.value.timestamp)
    THEN [acc EXCEPT
            !.invalid = Append(@, buildInvalidTransaction(serializeTransaction(tx.value),
                            "DUPLICATE_TIMESTAMP",
                            DuplicateMessage(SeenGet(acc.seen, tx.value.timestamp)))),
            !.duplicates = Append(@, serializeTransaction(tx.value))]
    ELSE IF raw.remanent # Undefined /\ ~declared.ok
    THEN [acc EXCEPT !.seen = SeenSet(@, tx.value.timestamp, i), !.thrown = declared]
    ELSE IF raw.remanent # Undefined /\ declared.value # tx.value.remanentBasePaise
    THEN [acc EXCEPT
            !.seen = SeenSet(@, tx.value.timestamp, i),
            !.invalid = Append(@, buildInvalidTransaction(serializeTransaction(tx.value),
                            "REMANENT_MISMATCH", RemanentMismatchMessage))]
    ELSE [acc EXCEPT !.seen = SeenSet(@, tx.value.timestamp, i),
                     !.valid = Append(@, tx.value)]

\* One round of the loop of parseAndValidateTransactionsForValidation on
\* rawTransactions[i].
ValidationRound(raw, i, valid, inv, dups, map) ==
    ValidationOf(raw, i,
        [valid |-> valid, invalid |-> inv, duplicates |-> dups, seen |-> map,
         thrown |-> None],
        parseTransactionInput(raw, i, "transactions"),
        parseNumericField(raw.remanent, <<"transactions", i, "remanent">>))

\* The round of parseForFiltering once raw is read.
FilteringOf(raw, i, acc, tx) ==
    IF ~tx.ok
    THEN IF tx.api
         THEN [acc EXCEPT !.invalid =
                  Append(@, buildInvalidTransaction(raw, "INVALID_TRANSACTION",
                                [path |-> tx.path, text |-> tx.text]))]
         ELSE [acc EXCEPT !.thrown = tx]
    ELSE IF SeenHas(acc.seen, tx.value.timestamp)
    THEN [acc EXCEPT !.invalid =
             Append(@, buildInvalidTransaction(raw, "DUPLICATE_TIMESTAMP",
                           DuplicateMessage(SeenGet(acc.seen, tx.value.timestamp))))]
    ELSE [acc EXCEPT !.seen = SeenSet(@, tx.value.timestamp, i),
                     !.valid = Append(@, tx.value)]

\* One round of the loop of parseForFiltering on rawTransactions[i].
FilteringRound(raw, i, valid, inv, dups, map) ==
    FilteringOf(raw, i,
        [valid |-> valid, invalid |-> inv, duplicates |-> dups, seen |-> map,
         thrown |-> None],
        parseTransactionInput(raw, i, "transactions"))

\* The callback of parseQPeriods once the fields of period are read; the
\* map stops at the first period that throws.
RECURSIVE QMap(_, _, _)
QPeriodOf(periods, index, acc, period, fixed, start, end) ==
    IF ~fixed.ok THEN fixed
    ELSE IF ~validateMoneyRange(fixed.value, 0, MAX_AMOUNT_PAISE)
    THEN PlainError(<<"q", index, "fixed">>, "out of allowed range")
    ELSE IF ~start.ok THEN start
    ELSE IF ~end.ok THEN end
    ELSE IF start.value > end.value
    THEN ApiError(400, <<"q", index>>, "start cannot be after end")
    ELSE QMap(periods, index + 1, Append(acc,
            [id |-> IF period.id # Undefined THEN period.id ELSE <<"q", index>>,
             fixedPaise |-> fixed.value,
             start |-> start.value, end |-> end.value,
             inputOrder |-> index]))
QMap(periods, index, acc) ==
    IF index >= Len(periods) THEN Ok(acc)
    ELSE QPeriodOf(periods, index, acc, periods[index + 1],
             parseNumericField(periods[index + 1].fixed, <<"q", index, "fixed">>),
             parsePeriodTimestamp(periods[index + 1].start, <<"q", index, "start">>),
             parsePeriodTimestamp(periods[index + 1].end, <<"q", index, "end">>))

\* parseQPeriods(periods)
parseQPeriods(periods) == QMap(periods, 0, <<>>)

\* The callback of parsePPeriods once the fields of period are read.
RECURSIVE PMap(_, _, _)
PPeriodOf(periods, index, acc, period, extra, start, end) ==
    IF ~extra.ok THEN extra
    ELSE IF ~validateMoneyRange(extra.value, 0, MAX_AMOUNT_PAISE)
    THEN PlainError(<<"p", index, "extra">>, "out of allowed range")
    ELSE IF ~start.ok THEN start
    ELSE IF ~end.ok THEN end
    ELSE IF start.value > end.value
    THEN ApiError(400, <<"p", index>>, "start cannot be after end")
    ELSE PMap(periods, index + 1, Append(acc,
            [id |-> IF period.id # Undefined THEN period.id ELSE <<"p", index>>,
             extraPaise |-> extra.value,
             start |-> start.value, end |-> end.value]))
PMap(periods, index, acc) ==
    IF index >= Len(periods) THEN Ok(acc)
    ELSE PPeriodOf(periods, index, acc, periods[index + 1],
             parseNumericField(periods[index + 1].extra, <<"p", index, "extra">>),
             parsePeriodTimestamp(periods[index + 1].start, <<"p", index, "start">>),
             parsePeriodTimestamp(periods[index + 1].end, <<"p", index, "end">>))

\* parsePPeriods(periods)
parsePPeriods(periods) == PMap(periods, 0, <<>>)

\* The callback of parseKPeriods once the fields of period are read.
RECURSIVE KMap(_, _, _)
KPeriodOf(periods, index, acc, period, start, end) ==
    IF ~start.ok THEN start
    ELSE IF ~end.ok THEN end
    ELSE IF start.value > end.value
    THEN ApiError(400, <<"k", index>>, "start cannot be after end")
    ELSE KMap(periods, index + 1, Append(acc,
            [id |-> IF period.id # Undefined THEN period.id ELSE <<"k", index>>,
             start |-> start.value, end |-> end.value,
             startText |-> period.start.s, endText |-> period.end.s,
             inputOrder |-> index]))
KMap(periods, index, acc) ==
    IF index >= Len(periods) THEN Ok(acc)
    ELSE KPeriodOf(periods, index, acc, periods[index + 1],
             parsePeriodTimestamp(periods[index + 1].start, <<"k", index, "start">>),
             parsePeriodTimestamp(periods[index + 1].end, <<"k", index, "end">>))

\* parseKPeriods(periods)
parseKPeriods(periods) == KMap(periods, 0, <<>>)

\* app.js createServer: the response of a request that threw.
MAX_RECORDS == 1000000

\* assertArray(value, fieldName): isArray is Array.isArray(value), items the
\* items of the array.
assertArray(isArray, items, fieldName) ==
    IF ~isArray THEN ApiError(400, <<fieldName>>, "must be an array")
    ELSE IF Len(items) > MAX_RECORDS
    THEN ApiError(400, <<fieldName>>, "cannot exceed 1000000 records")
    ELSE Ok(items)

\* The name of the field of the records: expenses for parseTransactions,
\* transactions elsewhere.
RecordsField(p) == IF p.endpoint = "parse" THEN "expenses" ELSE "transactions"

\* The assertArray calls at the head of parseTransactions,
\* parseAndValidateTransactionsForValidation and parseForFiltering, in
\* order: the first that throws, or ok.
FirstOf(a, b, c, d) == IF ~a.ok THEN a ELSE IF ~b.ok THEN b ELSE IF ~c.ok THEN c ELSE d
assertArrays(p) ==
    IF p.endpoint \in {"parse", "validator"}
    THEN assertArray(RecordsField(p) \notin p.notArray, p.records, RecordsField(p))
    ELSE FirstOf(assertArray("transactions" \notin p.notArray, p.records, "transactions"),
                 assertArray("q" \notin p.notArray, p.q, "q"),
                 assertArray("p" \notin p.notArray, p.p, "p"),
                 assertArray("k" \notin p.notArray, p.k, "k"))

ErrorResponse(e) ==
    IF e.api
    THEN [status |-> e.status, error |-> [path |-> e.path, text |-> e.text],
          details |-> Undefined]
    ELSE [status |-> 500, error |-> "Internal server error",
          details |-> [path |-> e.path, text |-> e.text]]

\* ------------------------------------------------------------------------
\* Inputs of the temporal rules: parsed transactions and periods, as
\* parseForFiltering hands them to applyTemporalRules.  Instants are
\* BaseInstant + 0..MaxT; amounts, fixed amounts and extras depend on the
\* input position so that every record is told apart by its value.
\* ------------------------------------------------------------------------

MaxT == 2          \* instants of the single-rule runs: BaseInstant + 0..MaxT
MaxTx == 2         \* transactions of a single-rule run
MaxPeriods == 2    \* periods (q, p or k) of a single-rule run
RulesMaxT == 1     \* instants of a whole applyTemporalRules run
RulesMaxTx == 2    \* transactions of a whole run
RulesMaxLen == 1   \* q periods and p periods of a whole run

BaseText == <<"2","0","2","3","-","1","0","-","1","2"," ","2","0",":","1","5",":","0","0">>
BaseInstant == EpochInt(parseTimestampToEpochSeconds(Str(BaseText), <<"timestamp">>).value)
TextOfInstant(t) == formatEpochSecondsToTimestamp(InstantOf(t))

TxAmounts == <<25000, 37500, 62000, 48000, 12345>>
AmountAt(index) == TxAmounts[(index % Len(TxAmounts)) + 1]
FixedAt(index) == 700 * index
RECURSIVE ExtraAt(_)
ExtraAt(index) == IF index = 0 THEN 100 ELSE 2 * ExtraAt(index - 1)

Intervals(T) == {iv \in (0..T) \X (0..T) : iv[1] <= iv[2]}

\* Transactions at the given instant offsets, in input order.  A later record
\* of an instant already present carries leading spaces in its timestamp
\* text, as it must to have passed the duplicate check.
RECURSIVE Spaces(_)
Spaces(n) == IF n = 0 THEN <<>> ELSE <<" ">> \o Spaces(n - 1)
TxList(offsets) ==
    [n \in 1..Len(offsets) |->
        Transaction(Spaces(Cardinality({m \in 1..(n - 1) : offsets[m] = offsets[n]}))
                        \o TextOfInstant(BaseInstant + offsets[n]),
                    BaseInstant + offsets[n], AmountAt(n - 1),
                    ceilTo100(AmountAt(n - 1)), n - 1)]
TxLists(T, n) == {TxList(o) : o \in SeqsUpTo(0..T, n)}

QList(ivs) ==
    [n \in 1..Len(ivs) |->
        [id |-> <<"q", n - 1>>, fixedPaise |-> FixedAt(n - 1),
         start |-> BaseInstant + ivs[n][1], end |-> BaseInstant + ivs[n][2],
         inputOrder |-> n - 1]]
QLists(T, n) == {QList(ivs) : ivs \in SeqsUpTo(Intervals(T), n)}

PList(ivs) ==
    [n \in 1..Len(ivs) |->
        [id |-> <<"p", n - 1>>, extraPaise |-> ExtraAt(n - 1),
         start |-> BaseInstant + ivs[n][1], end |-> BaseInstant + ivs[n][2]]]
PLists(T, n) == {PList(ivs) : ivs \in SeqsUpTo(Intervals(T), n)}

KList(ivs) ==
    [n \in 1..Len(ivs) |->
        [id |-> <<"k", n - 1>>,
         start |-> BaseInstant + ivs[n][1], end |-> BaseInstant + ivs[n][2],
         startText |-> TextOfInstant(BaseInstant + ivs[n][1]),
         endText |-> TextOfInstant(BaseInstant + ivs[n][2]),
         inputOrder |-> n - 1]]
KLists(T, n) == {KList(ivs) : ivs \in SeqsUpTo(Intervals(T), n)}
\* A whole run has no window or one; several windows are the runs of
\* buildSavingsByKPeriods alone.
NoOrOneWindow(T) == {<<>>} \cup {KList(<<iv>>) : iv \in Intervals(T)}

\* ------------------------------------------------------------------------
\* Actions of the temporal rules (applyTemporalRules, filterTransactions)
\* ------------------------------------------------------------------------

\* applyQPeriods(validTransactions, qPeriods, sortedTransactionIndices)
ApplyQ ==
    /\ pc = "q"
    /\ transactions' = applyQPeriods(transactions, qPeriods,
                                     SortedTransactionIndices(transactions))
    /\ pc' = "p"
    /\ UNCHANGED <<serverVars, qPeriods, pPeriods, kPeriods, savingsByDates, codecVars, batchVars>>

\* applyPPeriods(validTransactions, pPeriods, sortedTransactionIndices)
ApplyP ==
    /\ pc = "p"
    /\ transactions' = applyPPeriods(transactions, pPeriods,
                                     SortedTransactionIndices(transactions))
    /\ pc' = "k"
    /\ UNCHANGED <<serverVars, qPeriods, pPeriods, kPeriods, savingsByDates, codecVars, batchVars>>

\* buildSavingsByKPeriods(validTransactions, kPeriods) and the map after it
BuildSavings ==
    /\ pc = "k"
    /\ savingsByDates' = SavingsEntries(transactions, kPeriods)
    /\ pc' = "totals"
    /\ UNCHANGED <<serverVars, transactions, qPeriods, pPeriods, kPeriods, codecVars, batchVars>>

\* filterTransactions: the totals and the 200 response
FilterRespond ==
    /\ pc = "totals"
    /\ IF payload = None THEN TRUE ELSE payload.endpoint = "filter"
    /\ response' = [status |-> 200,
                    body |-> FilterBody(transactions, invalid, savingsByDates)]
    /\ pc' = "done"
    /\ UNCHANGED <<serverVars, rulesVars, codecVars, payload, idx, invalid, duplicates, seen>>

IdleCodec == arg = None /\ ret = None
\* createMetrics(), no request taken, readFile(UI_FILE_URL) begun
IdleServer == requestCount = 0 /\ waiting = <<>> /\ uiHtml = "pending"
IdleBatch ==
    /\ payload = None /\ idx = 0 /\ invalid = <<>> /\ duplicates = <<>>
    /\ seen = <<>> /\ response = None
IdleRules ==
    /\ transactions = <<>> /\ qPeriods = <<>> /\ pPeriods = <<>> /\ kPeriods = <<>>
    /\ savingsByDates = <<>>

\* applyQPeriods alone
InitQ ==
    /\ IdleServer
    /\ pc = "q"
    /\ transactions \in TxLists(MaxT, MaxTx)
    /\ qPeriods \in QLists(MaxT, MaxPeriods + 1)
    /\ pPeriods = <<>> /\ kPeriods = <<>> /\ savingsByDates = <<>>
    /\ IdleCodec /\ IdleBatch
NextQ == ApplyQ
SpecQ == InitQ /\ [][NextQ]_vars

\* applyPPeriods alone
InitP ==
    /\ IdleServer
    /\ pc = "p"
    /\ transactions \in TxLists(MaxT, MaxTx)
    /\ pPeriods \in PLists(MaxT, MaxPeriods + 1)
    /\ qPeriods = <<>> /\ kPeriods = <<>> /\ savingsByDates = <<>>
    /\ IdleCodec /\ IdleBatch
NextP == ApplyP
SpecP == InitP /\ [][NextP]_vars

\* buildSavingsByKPeriods alone
InitK ==
    /\ IdleServer
    /\ pc = "k"
    /\ transactions \in TxLists(MaxT, MaxTx + 1)
    /\ kPeriods \in KLists(MaxT, MaxPeriods)
    /\ qPeriods = <<>> /\ pPeriods = <<>> /\ savingsByDates = <<>>
    /\ IdleCodec /\ IdleBatch
NextK == BuildSavings
SpecK == InitK /\ [][NextK]_vars

\* A whole run of applyTemporalRules and the totals of filterTransactions
InitRules ==
    /\ IdleServer
    /\ pc = "q"
    /\ transactions \in TxLists(RulesMaxT, RulesMaxTx)
    /\ qPeriods \in QLists(RulesMaxT, RulesMaxLen)
    /\ pPeriods \in PLists(RulesMaxT, RulesMaxLen)
    /\ kPeriods \in NoOrOneWindow(RulesMaxT)
    /\ savingsByDates = <<>>
    /\ IdleCodec /\ IdleBatch
NextRules == ApplyQ \/ ApplyP \/ BuildSavings \/ FilterRespond
SpecRules == InitRules /\ [][NextRules]_vars

\* ------------------------------------------------------------------------
\* The endpoints on raw payloads: parseTransactions, validateTransactions,
\* filterTransactions, and the status createServer answers with.
\* payload.records is payload.expenses for the parse endpoint and
\* payload.transactions for the other ones.  payload.records, payload.q,
\* payload.p and payload.k hold the items of a field that is an array; a
\* field whose value is not an array is named in payload.notArray.
\* ------------------------------------------------------------------------

MaxBatch == 2      \* records of a payload

\* BaseText and the texts of the two seconds after it
TextA == BaseText
TextB == SubSeq(BaseText, 1, 18) \o <<"1">>
TextC == SubSeq(BaseText, 1, 18) \o <<"2">>
TextNoSeconds == SubSeq(BaseText, 1, 16)
TextFeb30 == <<"2","0","2","3","-","0","2","-","3","0"," ","0","0",":","0","0",":","0","0">>

RawRecord(timestamp, date, amount, ceiling, remanent) ==
    [timestamp |-> timestamp, date |-> date, amount |-> amount,
     ceiling |-> ceiling, remanent |-> remanent]

RawRecords ==
    << RawRecord(Str(TextA), Undefined, Num(<<"2", "5", "0">>), Undefined, Undefined),
       RawRecord(Str(<<" ">> \o TextA), Undefined, Num(<<"3", "7", "5">>), Undefined, Undefined),
       RawRecord(Str(TextA), Undefined, Num(<<"1", "5", "0">>), Num(<<"2", "0", "0">>),
                 Num(<<"5", "0">>)),
       RawRecord(Str(TextB), Undefined, Num(<<"2", "5", "0">>), Num(<<"5", "0", "0">>), Undefined),
       RawRecord(Str(TextB), Undefined, Num(<<"5", "0", "0", "0", "0", "0">>), Undefined, Undefined),
       RawRecord(Str(TextB), Undefined, Str(<<"a", "b", "c">>), Undefined, Undefined),
       RawRecord(Str(TextNoSeconds), Undefined, Num(<<"2", "5", "0">>), Undefined, Undefined),
       RawRecord(Undefined, Undefined, Num(<<"2", "5", "0">>), Undefined, Undefined),
       RawRecord(Str(TextB), Undefined, Num(<<"2", "5", "0">>), Undefined, Str(<<"x">>)),
       RawRecord(Str(TextB), Undefined, Num(<<"2", "5", "0">>), Undefined, Num(<<"1", "0">>)),
       RawRecord(Str(TextB), Undefined, Num(<<"2", "5", "0">>), Num(<<"2", "0", "0">>), Undefined),
       RawRecord(Undefined, Str(TextC), Str(<<"6", "2", "0", ".", "5">>), Undefined, Undefined) >>

RecordLists(n) ==
    {[m \in 1..Len(choice) |-> RawRecords[choice[m]]] :
        choice \in SeqsUpTo(1..Len(RawRecords), n)}

RawQ(fixed, start, end) == [id |-> Undefined, fixed |-> fixed, start |-> start, end |-> end]
RawP(extra, start, end) == [id |-> Undefined, extra |-> extra, start |-> start, end |-> end]
RawK(start, end) == [id |-> Undefined, start |-> start, end |-> end]

NoPeriods == [q |-> <<>>, p |-> <<>>, k |-> <<>>]
GoodPeriods ==
    [q |-> <<RawQ(Num(<<"7">>), Str(TextA), Str(TextB))>>,
     p |-> <<RawP(Str(<<"1", ".", "5">>), Str(TextA), Str(TextC))>>,
     k |-> <<RawK(Str(TextA), Str(TextC))>>]
PeriodInputs ==
    << NoPeriods,
       GoodPeriods,
       [GoodPeriods EXCEPT !.q = <<RawQ(Num(<<"5", "0", "0", "0", "0", "0">>), Str(TextA), Str(TextB))>>],
       [GoodPeriods EXCEPT !.q = <<RawQ(Str(<<"x">>), Str(TextA), Str(TextB))>>],
       [GoodPeriods EXCEPT !.q = <<RawQ(Num(<<"7">>), Str(TextB), Str(TextA))>>],
       [GoodPeriods EXCEPT !.p = <<RawP(Num(<<"-", "1">>), Str(TextA), Str(TextC))>>],
       [GoodPeriods EXCEPT !.k = <<RawK(Str(TextA), Str(TextFeb30))>>] >>

WageInputs == <<Num(<<"5", "0", "0", "0", "0">>), Str(<<"x">>), Undefined>>

\* The payloads with a field that is not an array, e.g. {"expenses": 5}.
NotArrayPayloads ==
    {[endpoint |-> e, records |-> <<>>,
      wage |-> IF e = "validator" THEN WageInputs[1] ELSE Undefined,
      q |-> <<>>, p |-> <<>>, k |-> <<>>, notArray |-> {RecordsField([endpoint |-> e])}] :
        e \in {"parse", "validator", "filter"}}
    \cup
    {[endpoint |-> "filter", records |-> <<RawRecords[1]>>, wage |-> Undefined,
      q |-> <<>>, p |-> <<>>, k |-> <<>>, notArray |-> {f}] : f \in {"q", "p", "k"}}

Payloads(n) ==
    {[endpoint |-> "parse", records |-> rs, wage |-> Undefined,
      q |-> <<>>, p |-> <<>>, k |-> <<>>, notArray |-> {}] : rs \in RecordLists(n)}
    \cup
    {[endpoint |-> "validator", records |-> rs, wage |-> WageInputs[w],
      q |-> <<>>, p |-> <<>>, k |-> <<>>, notArray |-> {}] :
        rs \in RecordLists(n), w \in 1..Len(WageInputs)}
    \cup
    {[endpoint |-> "filter", records |-> rs, wage |-> Undefined,
      q |-> PeriodInputs[c].q, p |-> PeriodInputs[c].p, k |-> PeriodInputs[c].k,
      notArray |-> {}] :
        rs \in RecordLists(n), c \in 1..Len(PeriodInputs)}
    \cup NotArrayPayloads

\* The end of a step that may throw: the value is kept, or the request ends
\* with the response of the error.
ExpenseDone(tx) ==
    IF tx.ok
    THEN /\ transactions' = Append(transactions, tx.value)
         /\ idx' = idx + 1
         /\ UNCHANGED <<pc, response>>
    ELSE /\ response' = ErrorResponse(tx)
         /\ pc' = "done"
         /\ UNCHANGED <<transactions, idx>>

\* parseTransactions: one call of the map callback, buildTransactionFromExpense
ParseExpense ==
    /\ pc = "parse"
    /\ assertArrays(payload).ok
    /\ idx < Len(payload.records)
    /\ ExpenseDone(buildTransactionFromExpense(payload.records[idx + 1], idx))
    /\ UNCHANGED <<serverVars, qPeriods, pPeriods, kPeriods, savingsByDates, codecVars,
                   payload, invalid, duplicates, seen>>

\* parseTransactions: the totals and the 200 response
ParseRespond ==
    /\ pc = "parse"
    /\ assertArrays(payload).ok
    /\ idx = Len(payload.records)
    /\ response' = [status |-> 200, body |-> ParseBody(transactions)]
    /\ pc' = "done"
    /\ UNCHANGED <<serverVars, rulesVars, codecVars, payload, idx, invalid, duplicates, seen>>

WageDone(wage) ==
    IF wage.ok
    THEN pc' = "validator" /\ UNCHANGED response
    ELSE pc' = "done" /\ response' = ErrorResponse(wage)

\* validateTransactions: parseNumericField(payload?.wage, 'wage')
ValidateWage ==
    /\ pc = "wage"
    /\ WageDone(parseNumericField(payload.wage, <<"wage">>))
    /\ UNCHANGED <<serverVars, rulesVars, codecVars, payload, idx, invalid, duplicates, seen>>

RoundDone(r) ==
    IF r.thrown = None
    THEN /\ transactions' = r.valid
         /\ invalid' = r.invalid
         /\ duplicates' = r.duplicates
         /\ seen' = r.seen
         /\ idx' = idx + 1
         /\ UNCHANGED <<pc, response>>
    ELSE /\ response' = ErrorResponse(r.thrown)
         /\ pc' = "done"
         /\ UNCHANGED <<transactions, invalid, duplicates, seen, idx>>

\* parseAndValidateTransactionsForValidation: one round of the loop
ValidateRecord ==
    /\ pc = "validator"
    /\ assertArrays(payload).ok
    /\ idx < Len(payload.records)
    /\ RoundDone(ValidationRound(payload.records[idx + 1], idx, transactions, invalid,
                                 duplicates, seen))
    /\ UNCHANGED <<serverVars, qPeriods, pPeriods, kPeriods, savingsByDates, codecVars, payload>>

\* validateTransactions: the 200 response
ValidateRespond ==
    /\ pc = "validator"
    /\ assertArrays(payload).ok
    /\ idx = Len(payload.records)
    /\ response' = [status |-> 200,
                    body |-> [valid |-> SerializeAll(transactions),
                              invalid |-> invalid,
                              duplicates |-> duplicates]]
    /\ pc' = "done"
    /\ UNCHANGED <<serverVars, rulesVars, codecVars, payload, idx, invalid, duplicates, seen>>

\* parseForFiltering: one round of the loop
FilterRecord ==
    /\ pc = "filter"
    /\ assertArrays(payload).ok
    /\ idx < Len(payload.records)
    /\ RoundDone(FilteringRound(payload.records[idx + 1], idx, transactions, invalid,
                                duplicates, seen))
    /\ UNCHANGED <<serverVars, qPeriods, pPeriods, kPeriods, savingsByDates, codecVars, payload>>

PeriodsDone(q, p, k) ==
    IF q.ok /\ p.ok /\ k.ok
    THEN /\ qPeriods' = q.value
         /\ pPeriods' = p.value
         /\ kPeriods' = k.value
         /\ pc' = "q"
         /\ UNCHANGED response
    ELSE /\ response' = ErrorResponse(IF ~q.ok THEN q ELSE IF ~p.ok THEN p ELSE k)
         /\ pc' = "done"
         /\ UNCHANGED <<qPeriods, pPeriods, kPeriods>>

\* parseForFiltering: parseQPeriods, parsePPeriods, parseKPeriods after the loop
FilterPeriods ==
    /\ pc = "filter"
    /\ assertArrays(payload).ok
    /\ idx = Len(payload.records)
    /\ PeriodsDone(parseQPeriods(payload.q), parsePPeriods(payload.p),
                   parseKPeriods(payload.k))
    /\ UNCHANGED <<serverVars, transactions, savingsByDates, codecVars, payload, idx, invalid,
                   duplicates, seen>>

\* assertArray throws at the head of parseTransactions,
\* parseAndValidateTransactionsForValidation or parseForFiltering
RejectArray ==
    /\ pc \in {"parse", "validator", "filter"}
    /\ idx = 0
    /\ ~assertArrays(payload).ok
    /\ response' = ErrorResponse(assertArrays(payload))
    /\ pc' = "done"
    /\ UNCHANGED <<serverVars, rulesVars, codecVars, payload, idx, invalid, duplicates, seen>>

\* The call of the engine has returned or thrown: writeJson, in the try or in
\* the catch, and the finally block
WriteJson ==
    /\ pc = "done"
    /\ requestCount' = requestCount + 1
    /\ pc' = "idle"
    /\ UNCHANGED <<waiting, uiHtml, rulesVars, codecVars, batchVars>>

\* A call of parseTransactions, validateTransactions or filterTransactions
\* with one payload.  The dispatch of createServer is InitServer and Route.
InitBatch ==
    /\ IdleServer
    /\ payload \in Payloads(MaxBatch)
    /\ pc = IF payload.endpoint = "validator" THEN "wage" ELSE payload.endpoint
    /\ idx = 0 /\ invalid = <<>> /\ duplicates = <<>> /\ seen = <<>>
    /\ response = None
    /\ IdleRules /\ IdleCodec
NextBatch ==
    \/ RejectArray
    \/ ParseExpense \/ ParseRespond
    \/ ValidateWage \/ ValidateRecord \/ ValidateRespond
    \/ FilterRecord \/ FilterPeriods
    \/ ApplyQ \/ ApplyP \/ BuildSavings \/ FilterRespond
SpecBatch == InitBatch /\ [][NextBatch]_vars

\* ------------------------------------------------------------------------
\* The rules as the specification states them
\* ------------------------------------------------------------------------

Contains(period, t) == period.start <= t /\ t <= period.end

\* The override periods containing t and, among them, the one with the
\* greatest start and then the smallest input position.
ActiveQ(qs, t) == {j \in 1..Len(qs) : Contains(qs[j], t)}
WinnerQ(qs, t) ==
    CHOOSE j \in ActiveQ(qs, t) :
        \A m \in ActiveQ(qs, t) :
            \/ qs[j].start > qs[m].start
            \/ qs[j].start = qs[m].start /\ qs[j].inputOrder <= qs[m].inputOrder
OverrideOrBase(qs, tx) ==
    IF ActiveQ(qs, tx.epochSeconds) = {} THEN tx.remanentBasePaise
    ELSE qs[WinnerQ(qs, tx.epochSeconds)].fixedPaise

\* The sum of extra over the additive periods containing t.
SumExtras(ps, t) ==
    SumSeq([n \in 1..Len(ps) |-> IF Contains(ps[n], t) THEN ps[n].extraPaise ELSE 0])

\* The sum of finalRemanent over the transactions inside a window.
WindowSum(txs, window) ==
    SumSeq([n \in 1..Len(txs) |->
               IF Contains(window, txs[n].epochSeconds) THEN txs[n].remanentFinalPaise ELSE 0])

\* C1: after applyQPeriods every transaction carries the fixed amount of the
\* period that, among the periods containing its instant, has the greatest
\* start and then the smallest input position, and its base remanent when no
\* period contains its instant.
C1_OverrideResolution ==
    pc = "p" =>
        \A n \in 1..Len(transactions) :
            transactions[n].remanentFinalPaise = OverrideOrBase(qPeriods, transactions[n])

\* A run where a transaction lies in two periods of equal start while a
\* period of later start has already expired (it is on top of the heap and
\* must be evicted).
C1_Witness ==
    /\ pc = "p"
    /\ \E n \in 1..Len(transactions) :
        LET t == transactions[n].epochSeconds
        IN  \E j, m, e \in 1..Len(qPeriods) :
                /\ j < m
                /\ qPeriods[j].start = qPeriods[m].start
                /\ Contains(qPeriods[j], t) /\ Contains(qPeriods[m], t)
                /\ qPeriods[e].end < t /\ qPeriods[e].start > qPeriods[j].start
                /\ transactions[n].remanentFinalPaise = qPeriods[j].fixedPaise

\* C2: applyPPeriods adds to every transaction the sum of extra over all the
\* periods with start <= instant <= end, and 0 when there is none.
C2_AdditiveSum ==
    [][ApplyP =>
        \A n \in 1..Len(transactions) :
            transactions'[n].remanentFinalPaise - transactions[n].remanentFinalPaise
                = SumExtras(pPeriods, transactions[n].epochSeconds)]_vars

\* A run where one transaction lies in two periods that share their start,
\* sits on the end instant of one of them, and another transaction lies in
\* no period.
C2_Witness ==
    /\ pc = "k"
    /\ \E n \in 1..Len(transactions) :
        LET t == transactions[n].epochSeconds
        IN  \E j, m \in 1..Len(pPeriods) :
                /\ j # m
                /\ pPeriods[j].start = pPeriods[m].start
                /\ Contains(pPeriods[j], t) /\ Contains(pPeriods[m], t)
                /\ pPeriods[j].end = t
                /\ transactions[n].remanentFinalPaise =
                       transactions[n].remanentBasePaise
                       + pPeriods[j].extraPaise + pPeriods[m].extraPaise
    /\ \E n \in 1..Len(transactions) :
        /\ \A j \in 1..Len(pPeriods) : ~Contains(pPeriods[j], transactions[n].epochSeconds)
        /\ transactions[n].remanentFinalPaise = transactions[n].remanentBasePaise

\* C3: the i-th entry of buildSavingsByKPeriods belongs to the i-th window
\* and its amount is the sum of finalRemanent over the transactions with
\* start <= instant <= end, whatever the other windows are.
C3_RangeAggregation ==
    pc = "totals" =>
        /\ Len(savingsByDates) = Len(kPeriods)
        /\ \A n \in 1..Len(kPeriods) :
            /\ savingsByDates[n].start = kPeriods[n].startText
            /\ savingsByDates[n].end = kPeriods[n].endText
            /\ savingsByDates[n].amountPaise = WindowSum(transactions, kPeriods[n])

\* A run with two overlapping windows of different sums, one of them
\* holding two transactions, and unsorted input.
C3_Witness ==
    /\ pc = "totals"
    /\ Len(kPeriods) = 2
    /\ kPeriods[1].start <= kPeriods[2].end /\ kPeriods[2].start <= kPeriods[1].end
    /\ savingsByDates[1].amountPaise # savingsByDates[2].amountPaise
    /\ \E a, b \in 1..Len(transactions) :
        /\ a < b
        /\ transactions[a].epochSeconds > transactions[b].epochSeconds
        /\ Contains(kPeriods[1], transactions[a].epochSeconds)
        /\ Contains(kPeriods[1], transactions[b].epochSeconds)
        /\ savingsByDates[1].amountPaise >=
               transactions[a].remanentFinalPaise + transactions[b].remanentFinalPaise
    /\ savingsByDates[2].amountPaise > 0

\* C4: after a run every transaction has finalRemanent = (the winning
\* override's fixed amount, or its base remanent) + (the sum of the extras of
\* the additive periods containing its instant); the window sums and the
\* total remanent are sums of these values.
ExpectedFinal(tx) ==
    OverrideOrBase(qPeriods, tx) + SumExtras(pPeriods, tx.epochSeconds)
C4_RulePrecedence ==
    pc = "done" =>
        /\ \A n \in 1..Len(transactions) :
            transactions[n].remanentFinalPaise = ExpectedFinal(transactions[n])
        /\ \A n \in 1..Len(kPeriods) :
            LET inside == [m \in 1..Len(transactions) |->
                              IF Contains(kPeriods[n], transactions[m].epochSeconds)
                              THEN ExpectedFinal(transactions[m]) ELSE 0]
            IN  /\ savingsByDates[n].amountPaise = SumSeq(inside)
                /\ savingsByDates[n].amount = moneyToFixed2(SumSeq(inside))
        /\ response.body.transactionsTotalRemanent =
               moneyToFixed2(SumSeq([m \in 1..Len(transactions) |->
                                        ExpectedFinal(transactions[m])]))

\* A finished run where a transaction is both overridden and inside an
\* additive period, and a window holds it.
C4_Witness ==
    /\ pc = "done"
    /\ \E n \in 1..Len(transactions) :
        LET tx == transactions[n]
        IN  /\ ActiveQ(qPeriods, tx.epochSeconds) # {}
            /\ SumExtras(pPeriods, tx.epochSeconds) > 0
            /\ tx.remanentFinalPaise # tx.remanentBasePaise + SumExtras(pPeriods, tx.epochSeconds)
            /\ \E k \in 1..Len(kPeriods) :
                /\ Contains(kPeriods[k], tx.epochSeconds)
                /\ savingsByDates[k].amountPaise >= tx.remanentFinalPaise
                /\ savingsByDates[k].amountPaise > 0

\* ------------------------------------------------------------------------
\* The endpoints as the specification states them
\* ------------------------------------------------------------------------

BatchEndpoints == {"validator", "filter"}

\* The record at input position i (from 0) read on its own.
WellFormedAt(i) == parseTransactionInput(payload.records[i + 1], i, "transactions")
Positions == 0..(Len(payload.records) - 1)
InValid(i) == \E n \in 1..Len(transactions) : transactions[n].inputIndex = i

\* C5 as stated: every transaction accepted as valid has base remanent
\* ceilToRoundUnit(amount) - amount, whether or not its record carries a
\* ceiling of its own.
C5_AsStated ==
    \A n \in 1..Len(transactions) :
        transactions[n].remanentBasePaise =
            ceilTo100(transactions[n].amountPaise) - transactions[n].amountPaise

\* The ceiling the base remanent is taken from: the record's own ceiling
\* where the validator and filter paths read one, ceilToRoundUnit(amount)
\* otherwise.
CeilingInForce(tx) ==
    LET raw == payload.records[tx.inputIndex + 1]
    IN  IF payload.endpoint \in BatchEndpoints /\ raw.ceiling # Undefined
        THEN parseMoney(raw.ceiling).value
        ELSE ceilTo100(parseMoney(raw.amount).value)

\* C5: every transaction accepted as valid by the parse, validator or filter
\* path has base remanent = ceiling - amount, where the ceiling is the
\* record's own ceiling field when the validator or filter path is given one
\* and ceilToRoundUnit(amount) otherwise (always, on the parse path).
C5_BaseRemanent ==
    \A n \in 1..Len(transactions) :
        LET tx == transactions[n]
            amount == parseMoney(payload.records[tx.inputIndex + 1].amount).value
        IN  /\ tx.amountPaise = amount
            /\ tx.remanentBasePaise = CeilingInForce(tx) - amount

C5_Witness ==
    /\ pc = "done"
    /\ response.status = 200
    /\ payload.endpoint \in BatchEndpoints
    /\ \E n \in 1..Len(transactions) :
        /\ payload.records[transactions[n].inputIndex + 1].ceiling # Undefined
        /\ transactions[n].ceilingPaise # ceilTo100(transactions[n].amountPaise)
        /\ transactions[n].remanentBasePaise > 0
    /\ \E n \in 1..Len(transactions) :
        payload.records[transactions[n].inputIndex + 1].ceiling = Undefined

\* Two well-formed records whose timestamp texts parse to the same instant.
SameInstant(i, j) ==
    /\ WellFormedAt(i).ok
    /\ WellFormedAt(j).ok
    /\ WellFormedAt(i).value.epochSeconds = WellFormedAt(j).value.epochSeconds
FirstOccurrence(j) ==
    CHOOSE i \in 0..j : SameInstant(i, j) /\ \A h \in 0..(i - 1) : ~SameInstant(h, j)

\* C7: in a finished validator or filter call, a well-formed record whose
\* timestamp parses to the instant of an earlier well-formed record is not
\* in valid and is in invalid with code DUPLICATE_TIMESTAMP and a message
\* naming the position of the first occurrence; no two transactions in
\* valid share a parsed instant.
C7_DuplicateDetection ==
    (pc = "done" /\ payload.endpoint \in BatchEndpoints /\ response.status = 200) =>
        /\ \A j \in Positions :
            (\E i \in 0..(j - 1) : SameInstant(i, j)) =>
                /\ ~InValid(j)
                /\ \E n \in 1..Len(invalid) :
                    /\ invalid[n].code = "DUPLICATE_TIMESTAMP"
                    /\ invalid[n].message = DuplicateMessage(FirstOccurrence(j))
        /\ \A a, b \in 1..Len(transactions) :
            a # b => transactions[a].epochSeconds # transactions[b].epochSeconds

\* The call's inputs other than the records are accepted.
EnvelopeAccepted ==
    IF payload.endpoint = "validator"
    THEN parseNumericField(payload.wage, <<"wage">>).ok /\ assertArrays(payload).ok
    ELSE /\ assertArrays(payload).ok
         /\ parseQPeriods(payload.q).ok
         /\ parsePPeriods(payload.p).ok
         /\ parseKPeriods(payload.k).ok

\* A record that fails on its own: a malformed or missing timestamp, a
\* malformed or out-of-range amount, a bad ceiling, or (validator) a
\* malformed declared remanent.
MalformedRemanentAt(i) ==
    /\ payload.endpoint = "validator"
    /\ payload.records[i + 1].remanent # Undefined
    /\ ~parseMoney(payload.records[i + 1].remanent).ok
FailsAt(i) == ~WellFormedAt(i).ok \/ MalformedRemanentAt(i)

\* The classification of a batch, from the first record on: the rounds of
\* the endpoint's loop until the end or the first error that leaves it.
RECURSIVE ClassifyFrom(_, _, _, _)
ClassifyFrom(endpoint, records, i, acc) ==
    IF i >= Len(records) \/ acc.thrown # None THEN acc
    ELSE IF endpoint = "validator"
    THEN ClassifyFrom(endpoint, records, i + 1,
             ValidationRound(records[i + 1], i, acc.valid, acc.invalid,
                             acc.duplicates, acc.seen))
    ELSE ClassifyFrom(endpoint, records, i + 1,
             FilteringRound(records[i + 1], i, acc.valid, acc.invalid,
                            acc.duplicates, acc.seen))
Classify(endpoint, records) ==
    ClassifyFrom(endpoint, records, 0,
        [valid |-> <<>>, invalid |-> <<>>, duplicates |-> <<>>, seen |-> <<>>,
         thrown |-> None])

Without(records, i) ==
    [n \in 1..(Len(records) - 1) |-> IF n <= i THEN records[n] ELSE records[n + 1]]
ValidKeys(txs) ==
    [n \in 1..Len(txs) |-> [timestamp |-> txs[n].timestamp,
                            amountPaise |-> txs[n].amountPaise,
                            ceilingPaise |-> txs[n].ceilingPaise]]
Codes(entries) == [n \in 1..Len(entries) |-> entries[n].code]
CountOf(codes, code) == Cardinality({n \in 1..Len(codes) : codes[n] = code})
ReasonCodes == {"INVALID_TRANSACTION", "DUPLICATE_TIMESTAMP", "REMANENT_MISMATCH"}

\* C8: in a validator or filter call whose other inputs are accepted, a
\* record that fails never aborts the call: the call answers 200, the
\* record is not in valid and every record is in valid or in invalid with a
\* reason code, and the other records are classified as the call without
\* the failing record classifies them.
C8_BatchIsolation ==
    (pc = "done" /\ payload.endpoint \in BatchEndpoints /\ EnvelopeAccepted) =>
        \A i \in Positions :
            FailsAt(i) =>
                /\ response.status = 200
                /\ ~InValid(i)
                /\ Len(transactions) + Len(invalid) = Len(payload.records)
                /\ \A n \in 1..Len(invalid) : invalid[n].code \in ReasonCodes
                /\ LET others == Classify(payload.endpoint, Without(payload.records, i))
                   IN  others.thrown = None =>
                           /\ ValidKeys(transactions) = ValidKeys(others.valid)
                           /\ Len(invalid) = Len(others.invalid) + 1
                           /\ \A code \in ReasonCodes \ {"INVALID_TRANSACTION"} :
                               CountOf(Codes(invalid), code) =
                                   CountOf(Codes(others.invalid), code)

\* C9: a call that ends on a validation failure of an input field answers
\* with status 400 and a message qualified with the field path, never with
\* status 500.
C9_ClientErrorStatus ==
    (pc = "done" /\ response.status # 200) =>
        /\ response.status = 400
        /\ response.error.path # <<>>

\* ------------------------------------------------------------------------
\* ceilTo100 alone
\* ------------------------------------------------------------------------

MaxCeilArg == 20001     \* arguments of ceilTo100: -MaxCeilArg..MaxCeilArg

CeilTo100 ==
    /\ pc = "ceil"
    /\ ret' = ceilTo100(arg)
    /\ pc' = "ceiled"
    /\ UNCHANGED <<serverVars, arg, rulesVars, batchVars>>

InitCeil ==
    /\ IdleServer
    /\ pc = "ceil"
    /\ arg \in (-MaxCeilArg)..MaxCeilArg
    /\ ret = None
    /\ IdleRules /\ IdleBatch
NextCeil == CeilTo100
SpecCeil == InitCeil /\ [][NextCeil]_vars

\* C6 as stated: for v >= 0 the result is a multiple of 100 minor units, is
\* >= v, and equals v if and only if v is a multiple of 100 minor units.
C6_AsStated ==
    (pc = "ceiled" /\ arg >= 0) =>
        /\ ret % 100 = 0
        /\ ret >= arg
        /\ (ret = arg <=> arg % 100 = 0)

\* C6 amended: the round unit is 10000 minor units (100 currency units):
\* for v >= 0 the result is a multiple of 10000 (hence of 100), is >= v, and
\* equals v if and only if v is a multiple of 10000.
C6_CeilRoundUnit ==
    (pc = "ceiled" /\ arg >= 0) =>
        /\ ret % Multiple = 0
        /\ ret % 100 = 0
        /\ ret >= arg
        /\ (ret = arg <=> arg % Multiple = 0)

\* A multiple of 100 minor units that is not a multiple of 10000 was moved
\* up to the next multiple of 10000.
C6_Witness ==
    /\ pc = "ceiled"
    /\ arg > 0 /\ arg % 100 = 0 /\ arg % Multiple # 0
    /\ ret = arg + (Multiple - (arg % Multiple))

\* ------------------------------------------------------------------------
\* The timestamp codec alone: parse a text, format the instant
\* ------------------------------------------------------------------------

MaxPad == 1     \* white space characters around a timestamp text

TimestampText(y, mo, d, h, mi, sec) ==
    PadStart(DecimalText(y), 4) \o <<"-">> \o PadStart(DecimalText(mo), 2) \o <<"-">>
    \o PadStart(DecimalText(d), 2) \o <<" ">> \o PadStart(DecimalText(h), 2) \o <<":">>
    \o PadStart(DecimalText(mi), 2) \o <<":">> \o PadStart(DecimalText(sec), 2)

CalendarTexts ==
    {TimestampText(y, mo, d, h, mi, sec) :
        y \in {0, 99, 100, 999, 1000, 1969, 1970, 2023, 2024, 9999},
        mo \in {0, 1, 2, 12, 13}, d \in {0, 1, 28, 29, 30, 31, 32},
        h \in {0, 23, 24}, mi \in {0, 59, 60}, sec \in {0, 59, 60}}

\* The text as it is, cut before its seconds field, with "T" for the space,
\* and with white space before or after it.
TimestampShapes(text) ==
    {text, SubSeq(text, 1, 16), [text EXCEPT ![11] = "T"]}
    \cup {Spaces(n) \o text : n \in 1..MaxPad}
    \cup {text \o Spaces(n) : n \in 1..MaxPad}
    \cup {<<"\f">> \o text}

TimestampInputs == UNION {TimestampShapes(text) : text \in CalendarTexts}

ParseTimestamp ==
    /\ pc = "parse"
    /\ ret' = parseTimestampToEpochSeconds(arg, <<"timestamp">>)
    /\ pc' = IF ret'.ok THEN "format" ELSE "rejected"
    /\ UNCHANGED <<serverVars, arg, rulesVars, batchVars>>

FormatTimestamp ==
    /\ pc = "format"
    /\ ret' = [ok |-> TRUE, value |-> ret.value,
               text |-> formatEpochSecondsToTimestamp(ret.value)]
    /\ pc' = "formatted"
    /\ UNCHANGED <<serverVars, arg, rulesVars, batchVars>>

InitTime ==
    /\ IdleServer
    /\ pc = "parse"
    /\ arg \in {Str(text) : text \in TimestampInputs}
    /\ ret = None
    /\ IdleRules /\ IdleBatch
NextTime == ParseTimestamp \/ FormatTimestamp
SpecTime == InitTime /\ [][NextTime]_vars

\* C10: for every text the parser accepts, formatting the parsed instant
\* gives the text back.
C10_TimestampRoundTrip ==
    pc = "formatted" => ret.text = arg.s

\* The calendar as the specification states it: a text exactly of the form
\* YYYY-MM-DD HH:mm:ss whose fields denote a real date and time.
ExactForm(text) ==
    /\ Len(text) = 19
    /\ \A n \in {5, 8} : text[n] = "-"
    /\ text[11] = " "
    /\ \A n \in {14, 17} : text[n] = ":"
    /\ \A n \in (1..19) \ {5, 8, 11, 14, 17} : text[n] \in Range(DigitChars)
LeapYear(y) == y % 400 = 0 \/ (y % 4 = 0 /\ y % 100 # 0)
DaysInMonth(y, m) ==
    IF m = 2 THEN (IF LeapYear(y) THEN 29 ELSE 28)
    ELSE IF m \in {4, 6, 9, 11} THEN 30 ELSE 31
RealDateTime(text) ==
    /\ DigitsValue(text, 6, 7) \in 1..12
    /\ DigitsValue(text, 9, 10) \in
           1..DaysInMonth(DigitsValue(text, 1, 4), DigitsValue(text, 6, 7))
    /\ DigitsValue(text, 12, 13) \in 0..23
    /\ DigitsValue(text, 15, 16) \in 0..59
    /\ DigitsValue(text, 18, 19) \in 0..59

\* C11: parse accepts a text if and only if the whole text is exactly of
\* the form YYYY-MM-DD HH:mm:ss and its fields denote a real calendar date
\* and time; every other text is rejected with an error, and a text that is
\* not of the form is rejected with a message naming the required format.
C11_StrictParsing ==
    pc \in {"format", "rejected"} =>
        /\ ret.ok <=> (ExactForm(arg.s) /\ RealDateTime(arg.s))
        /\ (~ExactForm(Trim(arg.s)) =>
                ~ret.ok /\ ret.text = "must follow YYYY-MM-DD HH:mm:ss")

\* ------------------------------------------------------------------------
\* The money codec alone: parse a raw value, write it with two decimals,
\* parse what was written
\* ------------------------------------------------------------------------

MaxFracDigits == 4     \* fractional digits of a money text

FracDigitChars == {"0", "4", "5", "9"}
FracTexts == SeqsUpTo(FracDigitChars, MaxFracDigits)
WholeTexts ==
    { <<"0">>, <<"0", "0">>, <<"1">>, <<"7">>, <<"9", "9">>, <<"2", "5", "0">>,
      <<"4", "9", "9", "9", "9", "9">>, <<"5", "0", "0", "0", "0", "0">> }
SignTexts == { <<>>, <<"+">>, <<"-">> }

\* Decimal texts, and texts MONEY_RE does not match.
DecimalTexts ==
    {sign \o whole \o (IF frac = <<>> THEN <<>> ELSE <<".">> \o frac) :
        sign \in SignTexts, whole \in WholeTexts, frac \in FracTexts}
OtherTexts ==
    { <<>>, <<" ">>, <<"a", "b", "c">>, <<"1", ".">>, <<".", "5">>, <<"1", ",", "5">>,
      <<"1", "e", "3">>, <<"+", "-", "1">>, <<"1", ".", "2", ".", "3">>,
      <<" ", "2", "5", "0", ".", "5", " ">>, <<"2", "5", "0", " ", ".", "5">>,
      <<"\f">>, <<"\f", "7", ".", "5">>, <<"2", "5", "0", "\f">>,
      <<"U+00A0", "7", ".", "5", "9", "5", "U+FEFF">> }
\* Number.prototype.toString of some numbers, finite or not.
NumberTexts ==
    { <<"0">>, <<"2", "5", "0">>, <<"2", "5", "0", ".", "5">>, <<"0", ".", "0", "7">>,
      <<"-", "1">>, <<"1", "2", ".", "3", "4", "5">>, <<"1", "e", "+", "2", "1">>,
      <<"1", "e", "-", "7">> } \cup NonFiniteTexts
MoneyInputs ==
    {Str(text) : text \in DecimalTexts \cup OtherTexts}
    \cup {Num(text) : text \in NumberTexts} \cup {Undefined}

\* parseMoney(raw)
ParseMoney ==
    /\ pc = "money"
    /\ ret' = parseMoney(arg)
    /\ pc' = IF ret'.ok THEN "parsed" ELSE "rejected"
    /\ UNCHANGED <<serverVars, arg, rulesVars, batchVars>>

\* moneyToFixed2(paise) of the parsed value
MoneyToFixed2 ==
    /\ pc = "parsed"
    /\ ret' = [ok |-> TRUE, value |-> ret.value, fixed |-> moneyToFixed2(ret.value)]
    /\ pc' = "fixed"
    /\ UNCHANGED <<serverVars, arg, rulesVars, batchVars>>

\* parseMoney of the Number moneyToFixed2 returned
ReparseMoney ==
    /\ pc = "fixed"
    /\ ret' = [ok |-> TRUE, value |-> ret.value, fixed |-> ret.fixed,
               again |-> parseMoney(ret.fixed)]
    /\ pc' = "reparsed"
    /\ UNCHANGED <<serverVars, arg, rulesVars, batchVars>>

InitMoney ==
    /\ IdleServer
    /\ pc = "money"
    /\ arg \in MoneyInputs
    /\ ret = None
    /\ IdleRules /\ IdleBatch
NextMoney == ParseMoney \/ MoneyToFixed2 \/ ReparseMoney
SpecMoney == InitMoney /\ [][NextMoney]_vars

\* C12: for every amount A that parseMoney accepts with a value in
\* [0, 50,000,000) minor units, parseMoney(moneyToFixed2(parseMoney(A)))
\* equals parseMoney(A).
C12_MoneyRoundTrip ==
    (pc = "reparsed" /\ validateMoneyRange(ret.value, 0, MAX_AMOUNT_PAISE)) =>
        /\ ret.again.ok
        /\ ret.again.value = ret.value

\* A value in range whose two-decimal text ends in a zero that the Number
\* does not keep: it is written with one fractional digit and read back.
C12_Witness ==
    /\ pc = "reparsed"
    /\ validateMoneyRange(ret.value, 0, MAX_AMOUNT_PAISE)
    /\ ret.value % 100 # 0
    /\ ret.value % 10 = 0
    /\ Len(ret.fixed.s) = Len(DecimalText(ret.value \div 100)) + 2
    /\ ret.again.value = ret.value

\* A decimal text as the specification reads it: sign, whole part W and
\* fractional digits d1 d2 d3 ..., a missing digit read as 0.
SignOf(text) == IF Trim(text)[1] = "-" THEN -1 ELSE 1
Unsigned(text) ==
    IF Trim(text)[1] \in {"+", "-"} THEN Tail(Trim(text)) ELSE Trim(text)
PointAt(text) ==
    IF \E n \in 1..Len(Unsigned(text)) : Unsigned(text)[n] = "."
    THEN CHOOSE n \in 1..Len(Unsigned(text)) : Unsigned(text)[n] = "."
    ELSE Len(Unsigned(text)) + 1
WholePart(text) == DigitsValue(Unsigned(text), 1, PointAt(text) - 1)
FracDigit(text, n) ==
    IF PointAt(text) + n <= Len(Unsigned(text))
    THEN DigitVal(Unsigned(text)[PointAt(text) + n]) ELSE 0
FracLen(text) ==
    IF PointAt(text) > Len(Unsigned(text)) THEN 0 ELSE Len(Unsigned(text)) - PointAt(text)

\* C13: for a decimal text with sign s, whole part W and fractional digits
\* d1 d2 d3 ..., parseMoney gives s * (100*W + 10*d1 + d2 + (1 if d3 >= 5
\* else 0)): the digits after the third never change the result and
\* hundredths that reach 100 carry into the whole part.
C13_ParseMoneyRounding ==
    pc = "parsed" =>
        ret.value = SignOf(arg.s) *
            (100 * WholePart(arg.s) + 10 * FracDigit(arg.s, 1) + FracDigit(arg.s, 2)
             + (IF FracDigit(arg.s, 3) >= 5 THEN 1 ELSE 0))

\* A text with four fractional digits, 99 hundredths and a third digit of 5
\* or more, parsed to the next whole unit.
C13_Witness ==
    /\ pc = "parsed"
    /\ FracLen(arg.s) >= 4
    /\ FracDigit(arg.s, 1) = 9 /\ FracDigit(arg.s, 2) = 9 /\ FracDigit(arg.s, 3) >= 5
    /\ FracDigit(arg.s, 4) # 0
    /\ WholePart(arg.s) > 0
    /\ ret.value = SignOf(arg.s) * 100 * (WholePart(arg.s) + 1)

\* ------------------------------------------------------------------------
\* The outcome of a validator or filter call
\* ------------------------------------------------------------------------

\* The invalid entries reported with DUPLICATE_TIMESTAMP, in order.
ReportedDuplicates(entries) ==
    LET IsDuplicate(e) == e.code = "DUPLICATE_TIMESTAMP"
        reported == SelectSeq(entries, IsDuplicate)
    IN  [n \in 1..Len(reported) |-> reported[n].transaction]

\* C14: in every validator or filter call that completes, the valid and the
\* invalid lists of the answer together hold one entry per input record, the
\* valid entries come from pairwise distinct input positions, every invalid
\* entry carries one code among INVALID_TRANSACTION, DUPLICATE_TIMESTAMP and
\* REMANENT_MISMATCH, and in the validator the duplicates list holds exactly
\* the records reported with DUPLICATE_TIMESTAMP.
C14_ValidationPartition ==
    (pc = "done" /\ payload.endpoint \in BatchEndpoints /\ response.status = 200) =>
        /\ Len(response.body.valid) + Len(response.body.invalid) = Len(payload.records)
        /\ \A n \in 1..Len(transactions) : transactions[n].inputIndex \in Positions
        /\ \A a, b \in 1..Len(transactions) :
            a # b => transactions[a].inputIndex # transactions[b].inputIndex
        /\ \A n \in 1..Len(response.body.invalid) :
            response.body.invalid[n].code \in ReasonCodes
        /\ payload.endpoint = "validator" =>
            response.body.duplicates = ReportedDuplicates(response.body.invalid)

C14_Witness ==
    /\ pc = "done"
    /\ payload.endpoint = "validator"
    /\ response.status = 200
    /\ Len(response.body.valid) = 1
    /\ Len(response.body.duplicates) = 1
    /\ response.body.invalid[1].code = "DUPLICATE_TIMESTAMP"

\* ------------------------------------------------------------------------
\* app.js : the reference fixture, parse then filter
\* ------------------------------------------------------------------------

TextOct12 == <<"2","0","2","3","-","1","0","-","1","2"," ","2","0",":","1","5",":","0","0">>
TextFeb28 == <<"2","0","2","3","-","0","2","-","2","8"," ","1","5",":","4","9",":","0","0">>
TextJul01 == <<"2","0","2","3","-","0","7","-","0","1"," ","2","1",":","5","9",":","0","0">>
TextDec17 == <<"2","0","2","3","-","1","2","-","1","7"," ","0","8",":","0","9",":","0","0">>

\* sampleTransactions()
sampleTransactions ==
    << RawRecord(Str(TextOct12), Undefined, Num(<<"2", "5", "0">>), Undefined, Undefined),
       RawRecord(Str(TextFeb28), Undefined, Num(<<"3", "7", "5">>), Undefined, Undefined),
       RawRecord(Str(TextJul01), Undefined, Num(<<"6", "2", "0">>), Undefined, Undefined),
       RawRecord(Str(TextDec17), Undefined, Num(<<"4", "8", "0">>), Undefined, Undefined) >>

\* samplePeriods()
samplePeriods ==
    [q |-> <<RawQ(Num(<<"0">>), Str(<<"2","0","2","3","-","0","7","-","0","1"," ","0","0",":","0","0",":","0","0">>),
                  Str(<<"2","0","2","3","-","0","7","-","3","1"," ","2","3",":","5","9",":","5","9">>))>>,
     p |-> <<RawP(Num(<<"2", "5">>), Str(<<"2","0","2","3","-","1","0","-","0","1"," ","0","8",":","0","0",":","0","0">>),
                  Str(<<"2","0","2","3","-","1","2","-","3","1"," ","1","9",":","5","9",":","5","9">>))>>,
     k |-> <<RawK(Str(<<"2","0","2","3","-","0","3","-","0","1"," ","0","0",":","0","0",":","0","0">>),
                  Str(<<"2","0","2","3","-","1","1","-","3","0"," ","2","3",":","5","9",":","5","9">>)),
             RawK(Str(<<"2","0","2","3","-","0","1","-","0","1"," ","0","0",":","0","0",":","0","0">>),
                  Str(<<"2","0","2","3","-","1","2","-","3","1"," ","2","3",":","5","9",":","5","9">>))>>]

\* The expenses lists: the sample transactions, or some of them, in any order.
IsInjective(order) == \A a, b \in 1..Len(order) : a # b => order[a] # order[b]
FixtureLists ==
    {[m \in 1..Len(order) |-> sampleTransactions[order[m]]] :
        order \in {o \in SeqsUpTo(1..Len(sampleTransactions), Len(sampleTransactions)) :
                      Len(o) > 0 /\ IsInjective(o)}}

\* A record of the parse answer as the filter request carries it.
RawOfSerialized(tx) ==
    [timestamp |-> Str(tx.timestamp), date |-> Undefined, amount |-> tx.amount,
     ceiling |-> tx.ceiling, remanent |-> tx.remanent,
     remanentBase |-> tx.remanentBase, remanentFinal |-> tx.remanentFinal]

\* The request carries the four sample transactions in the order of the
\* fixture.
SampleOrder ==
    /\ Len(payload.records) = Len(sampleTransactions)
    /\ \A n \in 1..Len(sampleTransactions) :
        payload.records[n].timestamp = sampleTransactions[n].timestamp
ValidAt(text) == CHOOSE tx \in Range(response.body.valid) : tx.timestamp = text

\* C15: on the four sample transactions the parse answer has total amount
\* 1725, total ceiling 1900 and total remanent 175 over four transactions;
\* the filter answer on these with the sample periods has no invalid entry,
\* final remanent 0 for the July transaction and 75 for the October one, and
\* the two window sums 75 and 145 in that order.
C15_ReferenceFixture ==
    (pc = "done" /\ SampleOrder) =>
        /\ response.status = 200
        /\ payload.endpoint = "parse" =>
            /\ response.body.transactionsTotalAmount = Num(<<"1", "7", "2", "5">>)
            /\ response.body.transactionsTotalCeiling = Num(<<"1", "9", "0", "0">>)
            /\ response.body.transactionsTotalRemanent = Num(<<"1", "7", "5">>)
            /\ Len(response.body.transactions) = 4
        /\ payload.endpoint = "filter" =>
            /\ response.body.invalid = <<>>
            /\ Len(response.body.savingsByDates) = 2
            /\ response.body.savingsByDates[1].amount = Num(<<"7", "5">>)
            /\ response.body.savingsByDates[2].amount = Num(<<"1", "4", "5">>)
            /\ ValidAt(TextJul01).remanentFinal = Num(<<"0">>)
            /\ ValidAt(TextOct12).remanentFinal = Num(<<"7", "5">>)

C15_Witness ==
    /\ pc = "done"
    /\ SampleOrder
    /\ payload.endpoint = "filter"
    /\ Len(response.body.valid) = 4
    /\ response.body.savingsByDates[2].amount = Num(<<"1", "4", "5">>)

\* ------------------------------------------------------------------------
\* ceilTo100 on negative values
\* ------------------------------------------------------------------------

\* C16: for every value v < 0 the result of ceilTo100 is the smallest
\* multiple of the round unit that is >= v: it is a multiple, is >= v, is
\* <= 0, is less than one round unit above v, and is v when v is a multiple.
C16_CeilNegative ==
    (pc = "ceiled" /\ arg < 0) =>
        /\ ret % Multiple = 0
        /\ ret >= arg
        /\ ret <= 0
        /\ ret - arg < Multiple
        /\ (arg % Multiple = 0 => ret = arg)

\* ------------------------------------------------------------------------
\* The first occurrence of a timestamp
\* ------------------------------------------------------------------------

\* A record that is read without error and, in the validator, declares no
\* remanent or the remanent ceiling - amount.
ConsistentAt(i) ==
    /\ WellFormedAt(i).ok
    /\ (payload.endpoint = "validator" /\ payload.records[i + 1].remanent # Undefined) =>
        /\ parseMoney(payload.records[i + 1].remanent).ok
        /\ parseMoney(payload.records[i + 1].remanent).value =
               WellFormedAt(i).value.remanentBasePaise

\* Two such records that carry the same timestamp.
SameTimestamp(i, j) ==
    /\ ConsistentAt(i)
    /\ ConsistentAt(j)
    /\ WellFormedAt(i).value.timestamp = WellFormedAt(j).value.timestamp
FirstWith(j) ==
    CHOOSE i \in 0..j : SameTimestamp(i, j) /\ \A h \in 0..(i - 1) : ~SameTimestamp(h, j)

\* The invalid entries reported with DUPLICATE_TIMESTAMP.
DuplicateReports == {n \in 1..Len(invalid) : invalid[n].code = "DUPLICATE_TIMESTAMP"}

\* C17: in a finished validator or filter call, for every timestamp carried
\* by a well-formed record (one read without error whose declared remanent,
\* if any, is consistent), the first such record by input order that carries it
\* is in valid and no other record that carries it is; and the position a
\* DUPLICATE_TIMESTAMP report names is the position of a record kept in
\* valid.
C17_FirstOccurrenceKept ==
    (pc = "done" /\ payload.endpoint \in BatchEndpoints /\ response.status = 200) =>
        /\ \A j \in Positions :
            ConsistentAt(j) => (InValid(j) <=> FirstWith(j) = j)
        /\ \A n \in DuplicateReports : InValid(invalid[n].message.path[2])

\* ------------------------------------------------------------------------
\* The writes of a pipeline run
\* ------------------------------------------------------------------------

\* The transactions (0-based indices) whose remanentFinalPaise the loop of
\* applyQPeriods assigns, in order: none when qPeriods is empty, else the one
\* of each round, whichever branch of the if is taken.
QAssignments(qs, sortedTransactionIndices) ==
    IF Len(qs) = 0 THEN <<>>
    ELSE [k \in 1..Len(sortedTransactionIndices) |-> sortedTransactionIndices[k]]

\* The same for the loop of applyPPeriods.
PAssignments(ps, sortedTransactionIndices) ==
    IF Len(ps) = 0 THEN <<>>
    ELSE [k \in 1..Len(sortedTransactionIndices) |-> sortedTransactionIndices[k]]

AssignedTimes(log, txIndex) == Cardinality({k \in 1..Len(log) : log[k] = txIndex})

\* Every field of every transaction but remanentFinalPaise is as before.
SameButFinal(before, after) ==
    /\ Len(after) = Len(before)
    /\ \A n \in 1..Len(before) :
        [after[n] EXCEPT !.remanentFinalPaise = before[n].remanentFinalPaise] = before[n]

\* The step of a sweep whose assignments are log: no field but
\* remanentFinalPaise changes, no transaction is assigned twice, and a
\* transaction that is not assigned keeps its value.
WritesOnly(log) ==
    /\ SameButFinal(transactions, transactions')
    /\ \A n \in 1..Len(transactions) :
        /\ AssignedTimes(log, n - 1) <= 1
        /\ AssignedTimes(log, n - 1) = 0 => transactions'[n] = transactions[n]
    /\ (qPeriods = <<>> /\ pPeriods = <<>>) => log = <<>>

\* C18: applyQPeriods, applyPPeriods and buildSavingsByKPeriods change no
\* field of a transaction but remanentFinalPaise and change no period; the
\* final remanent is the base remanent when the run starts; each of the two
\* sweeps assigns it at most once per transaction, a transaction a sweep
\* does not assign keeps its value, buildSavingsByKPeriods assigns nothing,
\* and no sweep assigns when both period lists are empty.
C18_PipelineFrame ==
    [][/\ ApplyQ =>
            WritesOnly(QAssignments(qPeriods, SortedTransactionIndices(transactions)))
       /\ ApplyP =>
            WritesOnly(PAssignments(pPeriods, SortedTransactionIndices(transactions)))
       /\ BuildSavings => transactions' = transactions
       /\ pc \in {"q", "p", "k"} =>
            qPeriods' = qPeriods /\ pPeriods' = pPeriods /\ kPeriods' = kPeriods
       /\ pc = "q" =>
            \A n \in 1..Len(transactions) :
                transactions[n].remanentFinalPaise = transactions[n].remanentBasePaise]_vars

\* A finished run in which a transaction was assigned by both sweeps: an
\* override applied to it and a positive extra was added on top.
C18_Witness ==
    /\ pc = "done"
    /\ qPeriods # <<>> /\ pPeriods # <<>>
    /\ \E n \in 1..Len(transactions) :
        LET tx == transactions[n]
        IN  /\ ActiveQ(qPeriods, tx.epochSeconds) # {}
            /\ SumExtras(pPeriods, tx.epochSeconds) > 0
            /\ tx.remanentFinalPaise =
                   qPeriods[WinnerQ(qPeriods, tx.epochSeconds)].fixedPaise
                       + SumExtras(pPeriods, tx.epochSeconds)
            /\ tx.remanentFinalPaise # tx.remanentBasePaise

\* ------------------------------------------------------------------------
\* A whole run on transactions at pairwise distinct instants, in any input
\* order
\* ------------------------------------------------------------------------

OrderMaxT == 2      \* instants of the run: BaseInstant + 0..OrderMaxT
OrderMaxTx == 3     \* transactions of the run

DistinctTxLists(T, n) == {TxList(o) : o \in {x \in SeqsUpTo(0..T, n) : IsInjective(x)}}
NoOrOneQ(T) == {<<>>} \cup {QList(<<iv>>) : iv \in Intervals(T)}
NoOrOneP(T) == {<<>>} \cup {PList(<<iv>>) : iv \in Intervals(T)}
\* Every window over the instants, as one list of k periods.
RECURSIVE ListOf(_)
ListOf(S) == IF S = {} THEN <<>> ELSE LET x == CHOOSE y \in S : TRUE
                                      IN  <<x>> \o ListOf(S \ {x})
AllWindows(T) == KList(ListOf(Intervals(T)))

InitOrder ==
    /\ IdleServer
    /\ pc = "q"
    /\ transactions \in DistinctTxLists(OrderMaxT, OrderMaxTx)
    /\ qPeriods \in NoOrOneQ(OrderMaxT)
    /\ pPeriods \in NoOrOneP(OrderMaxT)
    /\ kPeriods = AllWindows(OrderMaxT)
    /\ savingsByDates = <<>>
    /\ IdleCodec /\ IdleBatch
NextOrder == ApplyQ \/ ApplyP \/ BuildSavings \/ FilterRespond
SpecOrder == InitOrder /\ [][NextOrder]_vars

Orders(n) == {f \in [1..n -> 1..n] : IsInjective(f)}

\* The transactions as they are read when the records come in the order
\* perm: the final remanent is the base remanent and inputIndex the position.
Reordered(txs, perm) ==
    [n \in 1..Len(txs) |->
        [txs[perm[n]] EXCEPT !.remanentFinalPaise = txs[perm[n]].remanentBasePaise,
                             !.inputIndex = n - 1]]

\* applyTemporalRules up to the end of the two sweeps.
SweepsOf(txs, qs, ps, order) == applyPPeriods(applyQPeriods(txs, qs, order), ps, order)
RunOf(txs, qs, ps) == SweepsOf(txs, qs, ps, SortedTransactionIndices(txs))

Ascending(txs, order) ==
    \A a, b \in 1..Len(order) :
        a < b => txs[order[a] + 1].epochSeconds <= txs[order[b] + 1].epochSeconds

\* The run on the reordered input gives what the run of the state gave.
SameOutcome(perm, ran) ==
    /\ \A n \in 1..Len(ran) :
        /\ ran[n].timestamp = transactions[perm[n]].timestamp
        /\ ran[n].remanentFinalPaise = transactions[perm[n]].remanentFinalPaise
    /\ SavingsEntries(ran, kPeriods) = savingsByDates
    /\ FilterBody(ran, <<>>, savingsByDates).savingsByDates = response.body.savingsByDates
    /\ totalsFromTransactions(ran).transactionsTotalAmount =
           response.body.transactionsTotalAmount
    /\ totalsFromTransactions(ran).transactionsTotalCeiling =
           response.body.transactionsTotalCeiling
    /\ totalsFromTransactions(ran).transactionsTotalRemanent =
           response.body.transactionsTotalRemanent

\* C19: for valid transactions at pairwise distinct timestamps and fixed
\* period lists, the run on any reordering of the input gives every
\* transaction the same final remanent, the same window sums and the same
\* totals, and the sweeps go through the transactions in ascending order of
\* instant.
C19_InputOrderIndependence ==
    pc = "done" =>
        \A perm \in Orders(Len(transactions)) :
            /\ SameOutcome(perm, RunOf(Reordered(transactions, perm), qPeriods, pPeriods))
            /\ Ascending(Reordered(transactions, perm),
                         SortedTransactionIndices(Reordered(transactions, perm)))

\* A finished run on three transactions that came neither in ascending nor in
\* descending order of instant, where a sweep changed a final remanent and a
\* window sum is positive.
C19_Witness ==
    /\ pc = "done"
    /\ Len(transactions) = 3
    /\ transactions[1].epochSeconds > transactions[2].epochSeconds
    /\ transactions[2].epochSeconds < transactions[3].epochSeconds
    /\ qPeriods # <<>> /\ pPeriods # <<>>
    /\ \E n \in 1..3 : transactions[n].remanentFinalPaise # transactions[n].remanentBasePaise
    /\ \E k, m \in 1..Len(savingsByDates) :
        savingsByDates[k].amountPaise > savingsByDates[m].amountPaise

\* ------------------------------------------------------------------------
\* app.js : createServer, the dispatch of a request; engine.js :
\* calculateReturns.
\* ------------------------------------------------------------------------

MaxRequests == 2
ReturnsEndpoints == {"nps", "index"}
PostRoutes == {"parse", "validator", "filter"} \cup ReturnsEndpoints
GetRoutes == {"ui", "health", "performance"}

\* The text of a Number without its sign.
Magnitude(s) == IF Len(s) > 0 /\ s[1] = "-" THEN Tail(s) ELSE s
IsDigitsText(s) == Len(s) > 0 /\ \A n \in 1..Len(s) : IsDigit(s[n])
\* Number.prototype.toString writes an exponent with "+" from 1e21 on.
IsExponentPlusText(s) == \E n \in 1..(Len(s) - 1) : s[n] = "e" /\ s[n + 1] = "+"
IsNegativeText(s) == Len(s) > 0 /\ s[1] = "-"

\* Number.isInteger(value)
NumberIsInteger(value) ==
    /\ value.t = "number"
    /\ value.s \notin NonFiniteTexts
    /\ (IsDigitsText(Magnitude(value.s)) \/ IsExponentPlusText(value.s))

\* parseAge(value)
parseAge(value) ==
    IF ~NumberIsInteger(value) THEN ApiError(400, <<"age">>, "must be an integer")
    ELSE IF \/ IsNegativeText(value.s)
            \/ IsExponentPlusText(value.s)
            \/ Len(value.s) > 3
            \/ DigitsValue(value.s, 1, Len(value.s)) > 120
    THEN ApiError(400, <<"age">>, "must be between 0 and 120")
    ELSE Ok(DigitsValue(value.s, 1, Len(value.s)))

\* value > 1 for the text of a finite Number that is not negative.
GreaterThanOne(s) ==
    IF \E n \in 1..Len(s) : s[n] = "e" THEN IsExponentPlusText(s)
    ELSE LET point == IF \E n \in 1..Len(s) : s[n] = "."
                      THEN CHOOSE n \in 1..Len(s) : s[n] = "." ELSE Len(s) + 1
         IN  \/ point > 2
             \/ DigitVal(s[1]) > 1
             \/ (DigitVal(s[1]) = 1 /\ point <= Len(s))

\* ------------------------------------------------------------------------
\* Natural numbers of any size, for the amounts calculateReturns computes.
\* A number is the sequence of its digits in base 1000, lowest first, with
\* no leading zero digit; zero is the empty sequence.
\* ------------------------------------------------------------------------

RECURSIVE BigOfNat(_)
BigOfNat(n) == IF n = 0 THEN <<>> ELSE <<n % 1000>> \o BigOfNat(n \div 1000)

RECURSIVE BigTrim(_)
BigTrim(a) ==
    IF Len(a) > 0 /\ a[Len(a)] = 0 THEN BigTrim(SubSeq(a, 1, Len(a) - 1)) ELSE a

LowDigit(a) == IF a = <<>> THEN 0 ELSE a[1]
HighDigits(a) == IF a = <<>> THEN <<>> ELSE Tail(a)

RECURSIVE BigAddCarry(_, _, _)
BigAddCarry(a, b, carry) ==
    IF a = <<>> /\ b = <<>> THEN BigOfNat(carry)
    ELSE <<(LowDigit(a) + LowDigit(b) + carry) % 1000>>
         \o BigAddCarry(HighDigits(a), HighDigits(b),
                        (LowDigit(a) + LowDigit(b) + carry) \div 1000)
BigAdd(a, b) == BigAddCarry(a, b, 0)

\* a - b for a >= b
RECURSIVE BigSubBorrow(_, _, _)
BigSubBorrow(a, b, borrow) ==
    IF a = <<>> THEN <<>>
    ELSE <<(a[1] - LowDigit(b) - borrow + 1000) % 1000>>
         \o BigSubBorrow(Tail(a), HighDigits(b),
                         IF a[1] - LowDigit(b) - borrow < 0 THEN 1 ELSE 0)
BigSub(a, b) == BigTrim(BigSubBorrow(a, b, 0))

\* a * m for 0 <= m < 1000000
RECURSIVE BigMulCarry(_, _, _)
BigMulCarry(a, m, carry) ==
    IF a = <<>> THEN BigOfNat(carry)
    ELSE <<(a[1] * m + carry) % 1000>> \o BigMulCarry(Tail(a), m, (a[1] * m + carry) \div 1000)
BigMulSmall(a, m) == IF m = 0 THEN <<>> ELSE BigMulCarry(a, m, 0)

BigShift(a) == IF a = <<>> THEN <<>> ELSE <<0>> \o a

RECURSIVE BigMul(_, _)
BigMul(a, b) ==
    IF a = <<>> \/ b = <<>> THEN <<>>
    ELSE BigAdd(BigMulSmall(a, b[1]), BigShift(BigMul(a, Tail(b))))

RECURSIVE BigPow10(_)
BigPow10(n) ==
    IF n >= 3 THEN BigShift(BigPow10(n - 3)) ELSE IF n = 2 THEN <<100>>
    ELSE IF n = 1 THEN <<10>> ELSE <<1>>

\* -1, 0 or 1 as a < b, a = b or a > b, from the highest digit down
RECURSIVE BigCompareAt(_, _, _)
BigCompareAt(a, b, n) ==
    IF n = 0 THEN 0
    ELSE IF a[n] < b[n] THEN -1
    ELSE IF a[n] > b[n] THEN 1
    ELSE BigCompareAt(a, b, n - 1)
BigCompare(a, b) ==
    IF Len(a) < Len(b) THEN -1
    ELSE IF Len(a) > Len(b) THEN 1
    ELSE BigCompareAt(a, b, Len(a))
BigMin(a, b) == IF BigCompare(a, b) <= 0 THEN a ELSE b
BigDistance(a, b) == IF BigCompare(a, b) >= 0 THEN BigSub(a, b) ELSE BigSub(b, a)

\* The largest digit q with d * q <= r, between lo and hi, for r < d * 1000
RECURSIVE QuotientDigit(_, _, _, _)
QuotientDigit(r, d, lo, hi) ==
    IF lo = hi THEN lo
    ELSE IF BigCompare(BigMulSmall(d, (lo + hi + 1) \div 2), r) <= 0
    THEN QuotientDigit(r, d, (lo + hi + 1) \div 2, hi)
    ELSE QuotientDigit(r, d, lo, (lo + hi + 1) \div 2 - 1)

\* One step of the long division: the digit of the quotient and the rest
DivideStep(r, d, quotient, digit) ==
    [q |-> <<digit>> \o quotient, r |-> BigSub(r, BigMulSmall(d, digit))]

\* The long division of n by d > 0, from the highest digit of n down
RECURSIVE BigDivModAt(_, _, _, _, _)
RECURSIVE BigDivModStep(_, _, _, _, _)
RECURSIVE BigDivModNext(_, _, _, _)
BigDivModAt(n, d, at, quotient, rest) ==
    IF at = 0 THEN [q |-> BigTrim(quotient), r |-> rest]
    ELSE BigDivModStep(n, d, at, quotient, BigTrim(<<n[at]>> \o rest))
BigDivModStep(n, d, at, quotient, r) ==
    IF BigCompare(r, d) < 0 THEN BigDivModAt(n, d, at - 1, <<0>> \o quotient, r)
    ELSE BigDivModNext(n, d, at, DivideStep(r, d, quotient, QuotientDigit(r, d, 1, 999)))
BigDivModNext(n, d, at, step) == BigDivModAt(n, d, at - 1, step.q, step.r)
BigDivMod(n, d) == BigDivModAt(n, d, Len(n), <<>>, <<>>)

\* A number kept to its ten highest digits: m * 1000^e.  What is cut off is
\* below 10^-27 of the number, far below the rounding errors of a double.
Approx(m, e) == [m |-> m, e |-> e]
Truncated(m, e) ==
    IF Len(m) > 10 THEN [m |-> SubSeq(m, Len(m) - 9, Len(m)), e |-> e + Len(m) - 10]
    ELSE [m |-> m, e |-> e]
ApproxMul(x, y) == Truncated(BigMul(x.m, y.m), x.e + y.e)
ApproxSquare(x) == ApproxMul(x, x)
RECURSIVE ApproxPow(_, _)
ApproxPow(x, n) ==
    IF n = 0 THEN Approx(<<1>>, 0)
    ELSE IF n % 2 = 0 THEN ApproxSquare(ApproxPow(x, n \div 2))
    ELSE ApproxMul(ApproxSquare(ApproxPow(x, n \div 2)), x)
ApproxPow10(n) ==
    Approx(IF n % 3 = 2 THEN <<100>> ELSE IF n % 3 = 1 THEN <<10>> ELSE <<1>>, n \div 3)
\* The digits of x counted in 1000^c
Aligned(x, c) == IF x.m = <<>> THEN <<>> ELSE [n \in 1..(x.e - c) |-> 0] \o x.m
LowerExponent(x, y) ==
    IF y.m = <<>> THEN x.e ELSE IF x.m = <<>> THEN y.e ELSE IF x.e < y.e THEN x.e ELSE y.e
\* x - y for x >= y
ApproxSub(x, y) ==
    Approx(BigSub(Aligned(x, LowerExponent(x, y)), Aligned(y, LowerExponent(x, y))),
           LowerExponent(x, y))

\* The number of a run of decimal digits
RECURSIVE BigOfDigits(_)
BigOfDigits(s) ==
    IF Len(s) <= 3 THEN BigOfNat(DigitsValue(s, 1, Len(s)))
    ELSE BigTrim(<<DigitsValue(s, Len(s) - 2, Len(s))>>
                 \o BigOfDigits(SubSeq(s, 1, Len(s) - 3)))

\* The decimal digits of a number, "0" for zero
RECURSIVE BigDigitsFrom(_, _)
BigDigitsFrom(a, n) ==
    IF n = Len(a) THEN DecimalText(a[n])
    ELSE BigDigitsFrom(a, n + 1) \o PadStart(DecimalText(a[n]), 3)
BigDecimalText(a) == IF a = <<>> THEN <<"0">> ELSE BigDigitsFrom(a, 1)

\* ------------------------------------------------------------------------
\* calculateReturns: the rates, the taxes and the rounding
\* ------------------------------------------------------------------------

\* The Number text s = m * 10^e with m a run of digits: the digits without
\* the point, and e.
ExponentAt(s) == IF \E n \in 1..Len(s) : s[n] = "e"
                 THEN CHOOSE n \in 1..Len(s) : s[n] = "e" ELSE Len(s) + 1
PointAt10(s) == IF \E n \in 1..Len(s) : s[n] = "."
                THEN CHOOSE n \in 1..Len(s) : s[n] = "." ELSE ExponentAt(s)
MantissaDigits(s) ==
    SubSeq(s, 1, PointAt10(s) - 1) \o SubSeq(s, PointAt10(s) + 1, ExponentAt(s) - 1)
FractionLength(s) == Len(MantissaDigits(s)) - (PointAt10(s) - 1)
WrittenExponent(s) ==
    IF ExponentAt(s) > Len(s) THEN 0
    ELSE IF s[ExponentAt(s) + 1] = "-" THEN -DigitsValue(s, ExponentAt(s) + 2, Len(s))
    ELSE DigitsValue(s, ExponentAt(s) + 2, Len(s))
TenExponent(s) == WrittenExponent(s) - FractionLength(s)

\* The value of the Number text s >= 0 times 1 / per, as num / 10^scale
RatioOfNumber(s, per) ==
    IF TenExponent(s) >= 0
    THEN [num |-> BigMul(BigPow10(TenExponent(s)), BigOfDigits(MantissaDigits(s))),
          scale |-> IF per = 100 THEN 2 ELSE 0]
    ELSE [num |-> BigOfDigits(MantissaDigits(s)),
          scale |-> (IF per = 100 THEN 2 ELSE 0) - TenExponent(s)]

\* normalizeInflation(value): value > 1 ? value / 100 : value, the rate as
\* num / 10^scale
normalizeInflation(value) ==
    IF value.t # "number" \/ value.s \in NonFiniteTexts
    THEN ApiError(400, <<"inflation">>, "must be a finite number")
    ELSE IF IsNegativeText(value.s)
    THEN ApiError(400, <<"inflation">>, "cannot be negative")
    ELSE Ok(RatioOfNumber(value.s, IF GreaterThanOne(value.s) THEN 100 ELSE 1))

\* const years = age < 60 ? 60 - age : 5
YearsToRetirement(age) == IF age < 60 THEN 60 - age ELSE 5

\* The head of calculateReturns once each field is read.
ReturnsEnvelopeOf(instrument, age, inflation, wage) ==
    IF instrument \notin ReturnsEndpoints THEN ApiError(500, <<>>, "Unsupported instrument")
    ELSE IF ~age.ok THEN age
    ELSE IF ~inflation.ok THEN inflation
    ELSE IF ~wage.ok THEN wage
    ELSE IF wage.value <= 0 THEN ApiError(400, <<"wage">>, "must be greater than 0")
    ELSE Ok([years |-> YearsToRetirement(age.value), inflation |-> inflation.value,
             wagePaise |-> wage.value])

\* NPS_RATE and INDEX_RATE in ten-thousandths
NPS_RATE == 711
INDEX_RATE == 1449
NPS_DEDUCTION_CAP_RUPEES == 200000

\* 1 + growthRate in ten-thousandths
GrowthOf(instrument) ==
    BigOfNat(10000 + (IF instrument = "nps" THEN NPS_RATE ELSE INDEX_RATE))

\* An amount of rupees in tenths of a paisa
TenthsOfRupees(rupees) == BigOfNat(rupees * 1000)
\* The tax of a full slab: tenths of a paisa times the rate in percent, which
\* are thousandths of a paisa
Slab(rupees, percent) == BigMulSmall(TenthsOfRupees(rupees), percent)

\* taxForIncome(income): income in tenths of a paisa, the tax in thousandths
\* of a paisa
taxForIncome(income) ==
    IF BigCompare(income, TenthsOfRupees(700000)) <= 0 THEN <<>>
    ELSE IF BigCompare(income, TenthsOfRupees(1000000)) <= 0
    THEN BigMulSmall(BigSub(income, TenthsOfRupees(700000)), 10)
    ELSE IF BigCompare(income, TenthsOfRupees(1200000)) <= 0
    THEN BigAdd(Slab(300000, 10), BigMulSmall(BigSub(income, TenthsOfRupees(1000000)), 15))
    ELSE IF BigCompare(income, TenthsOfRupees(1500000)) <= 0
    THEN BigAdd(BigAdd(Slab(300000, 10), Slab(200000, 15)),
                BigMulSmall(BigSub(income, TenthsOfRupees(1200000)), 20))
    ELSE BigAdd(BigAdd(BigAdd(Slab(300000, 10), Slab(200000, 15)), Slab(300000, 20)),
                BigMulSmall(BigSub(income, TenthsOfRupees(1500000)), 30))

\* The Number of a count of paise, as Number.prototype.toString writes it
NumberOfPaiseText(text) ==
    Num(SubSeq(text, 1, Len(text) - 2)
        \o (IF text[Len(text) - 1] = "0" /\ text[Len(text)] = "0" THEN <<>>
            ELSE IF text[Len(text)] = "0" THEN <<".", text[Len(text) - 1]>>
            ELSE <<".", text[Len(text) - 1], text[Len(text)]>>))
NumberOfPaise(paise) == NumberOfPaiseText(PadStart(BigDecimalText(paise), 3))

\* The counts of paise Math.round((value + Number.EPSILON) * 100) can give
\* for value = n / d paise, division the long division of n by d.  The
\* doubles of calculateReturns carry rounding errors and ** is approximated
\* by the implementation: within 10^-12 of magnitude / d of the half, both
\* neighbours are outcomes.
RoundedPaise(division, d, magnitude) ==
    IF BigCompare(BigMul(BigDistance(BigMulSmall(division.r, 2), d), BigPow10(12)),
                  BigMulSmall(magnitude, 2)) <= 0 /\ magnitude # <<>>
    THEN {division.q, BigAdd(division.q, <<1>>)}
    ELSE IF BigCompare(BigMulSmall(division.r, 2), d) >= 0
    THEN {BigAdd(division.q, <<1>>)}
    ELSE {division.q}

\* round2(value) for value = n / d paise, counted in 1000^c
Round2Aligned(n, d, magnitude, c) ==
    {NumberOfPaise(paise) :
        paise \in RoundedPaise(BigDivMod(Aligned(n, c), Aligned(d, c)), Aligned(d, c),
                               Aligned(magnitude, c))}

\* round2(value) for value = n / d paise; below a thousandth of a paisa the
\* answer is 0
round2(n, d, magnitude) ==
    IF n.m = <<>> \/ Len(n.m) + n.e + 2 <= Len(d.m) + d.e THEN {Num(<<"0">>)}
    ELSE Round2Aligned(n, d, magnitude,
                       LowerExponent(Approx(<<1>>, LowerExponent(n, d)), magnitude))

\* nominal = principal * (1 + growthRate) ** years, over 10000^years
NominalOf(principal, instrument, years) ==
    ApproxMul(ApproxPow(Approx(GrowthOf(instrument), 0), years),
              Approx(BigOfNat(principal), 0))

\* round2(nominal - principal)
ProfitsOf(principal, nominal, years) ==
    round2(ApproxSub(nominal, ApproxMul(ApproxPow10(4 * years),
                                        Approx(BigOfNat(principal), 0))),
           ApproxPow10(4 * years), nominal)

\* (1 + inflationRate) ** years, over 10^(scale * years)
InflationOf(inflation, years) ==
    ApproxPow(Truncated(BigAdd(BigPow10(inflation.scale), inflation.num), 0), years)

\* round2(nominal / (1 + inflationRate) ** years)
RealValueOf(nominal, inflation, years) ==
    round2(ApproxMul(nominal, ApproxPow10(inflation.scale * years)),
           ApproxMul(InflationOf(inflation, years), ApproxPow10(4 * years)),
           ApproxMul(nominal, ApproxPow10(inflation.scale * years)))

\* Math.min(principal, annualNpsCap, NPS_DEDUCTION_CAP_RUPEES) in tenths of a
\* paisa; annualNpsCap is a tenth of wage * 12
EligibleDeduction(principal, wagePaise) ==
    BigMin(BigMin(BigMulSmall(BigOfNat(principal), 10), BigMulSmall(BigOfNat(wagePaise), 12)),
           TenthsOfRupees(NPS_DEDUCTION_CAP_RUPEES))

\* round2(taxForIncome(annualIncome) - taxForIncome(annualIncome - eligibleDeduction))
TaxBenefitOf(income, eligible) ==
    round2(Approx(BigSub(taxForIncome(income), taxForIncome(BigSub(income, eligible))), 0),
           Approx(<<0, 1>>, 0), Approx(taxForIncome(income), 0))

\* let taxBenefit = 0; if (instrument === 'nps') ...
TaxBenefitsOf(instrument, principal, wagePaise) ==
    IF instrument = "nps"
    THEN TaxBenefitOf(BigMulSmall(BigOfNat(wagePaise), 120),
                      EligibleDeduction(principal, wagePaise))
    ELSE {Num(<<"0">>)}

\* The entries the map callback can give for one window
WindowEntries(entry, nominal, instrument, envelope) ==
    {[start |-> entry.start, end |-> entry.end,
      amount |-> moneyToFixed2(entry.amountPaise),
      profits |-> profits, taxBenefit |-> taxBenefit, realValue |-> realValue] :
        profits \in ProfitsOf(entry.amountPaise, nominal, envelope.years),
        taxBenefit \in TaxBenefitsOf(instrument, entry.amountPaise, envelope.wagePaise),
        realValue \in RealValueOf(nominal, envelope.inflation, envelope.years)}

RECURSIVE EnrichedSavings(_, _, _, _)
EnrichedSavings(savings, n, instrument, envelope) ==
    IF n > Len(savings) THEN {<<>>}
    ELSE {<<entry>> \o rest :
            entry \in WindowEntries(savings[n],
                                    NominalOf(savings[n].amountPaise, instrument,
                                              envelope.years),
                                    instrument, envelope),
            rest \in EnrichedSavings(savings, n + 1, instrument, envelope)}

\* The answers of calculateReturns: the totals and the enriched windows
ReturnsBodies(instrument, envelope, txs, savings) ==
    {[transactionsTotalAmount |-> totalsFromTransactions(txs).transactionsTotalAmount,
      transactionsTotalCeiling |-> totalsFromTransactions(txs).transactionsTotalCeiling,
      transactionsTotalRemanent |-> totalsFromTransactions(txs).transactionsTotalRemanent,
      savingsByDates |-> enriched] :
        enriched \in EnrichedSavings(savings, 1, instrument, envelope)}

\* The if chain of the request handler: the route taken, or the error thrown
\* before a route is taken.
DispatchOf(request) ==
    IF request.method = "GET" /\ request.endpoint \in GetRoutes THEN Ok(request.endpoint)
    ELSE IF request.method # "POST"
    THEN ApiError(405, <<"Method", request.method>>, "is not allowed")
    ELSE IF request.json = "oversize"
    THEN ApiError(413, <<"Payload">>, "exceeds 104857600 bytes")
    ELSE IF request.json = "aborted" THEN ApiError(400, <<>>, "aborted")
    ELSE IF request.json = "invalid" THEN ApiError(400, <<>>, "Invalid JSON payload")
    ELSE IF request.endpoint \in PostRoutes THEN Ok(request.endpoint)
    ELSE ApiError(404, <<>>, "Route not found")

\* readJsonBody: the payload of a request, {} for an empty body
BodyOf(request) ==
    IF request.json = "empty"
    THEN [request EXCEPT !.records = <<>>, !.wage = Undefined, !.q = <<>>, !.p = <<>>,
                         !.k = <<>>, !.notArray = {RecordsField(request)},
                         !.age = Undefined, !.inflation = Undefined]
    ELSE request

\* The bodies of the GET routes.  Of performancePayload only the request
\* count is kept; the page and the figures of the process are not modelled.
GetBody(route, metrics) ==
    IF route = "health" THEN [status |-> "ok"]
    ELSE IF route = "performance" THEN [requests |-> metrics]
    ELSE [route |-> route]

AgeInputs ==
    << Num(<<"2", "9">>), Num(<<"6", "0">>), Num(<<"1", "2", "1">>), Num(<<"-", "1">>),
       Num(<<"2", "9", ".", "5">>), Num(<<"1", "e", "+", "2", "1">>),
       Str(<<"2", "9">>), Undefined >>
InflationInputs ==
    << Num(<<"5", ".", "5">>), Num(<<"0", ".", "0", "5">>), Num(<<"1">>),
       Num(<<"-", "1">>), Str(<<"5">>), Undefined >>
ReturnsWageInputs ==
    <<Num(<<"5", "0", "0", "0", "0">>), Num(<<"1", "0", "0", "0", "0", "0">>), Num(<<"0">>),
      Str(<<"x">>)>>

\* The window of the returns test: the year 2023.
YearWindow ==
    <<RawK(Str(<<"2","0","2","3","-","0","1","-","0","1"," ","0","0",":","0","0",":","0","0">>),
           Str(<<"2","0","2","3","-","1","2","-","3","1"," ","2","3",":","5","9",":","5","9">>))>>

Request(method, json, endpoint, records, wage, periods, notArray, age, inflation) ==
    [method |-> method, json |-> json, endpoint |-> endpoint, records |-> records,
     wage |-> wage, q |-> periods.q, p |-> periods.p, k |-> periods.k,
     notArray |-> notArray, age |-> age, inflation |-> inflation]

ReturnsRecords == <<RawRecords[1]>>
ServerRequests ==
    {Request(m, "ok", e, <<>>, Undefined, NoPeriods, {}, Undefined, Undefined) :
        m \in {"GET", "PUT"}, e \in GetRoutes \cup {"parse", "unknown"}}
    \cup
    {Request("POST", j, e, <<>>, Undefined, NoPeriods, {}, Undefined, Undefined) :
        j \in {"invalid", "oversize", "aborted"}, e \in {"parse", "unknown"}}
    \cup
    {Request("POST", "empty", e, <<>>, Undefined, NoPeriods, {}, Undefined, Undefined) :
        e \in PostRoutes}
    \cup
    {Request("POST", "ok", e, <<>>, Undefined, NoPeriods, {}, Undefined, Undefined) :
        e \in {"unknown", "health"}}
    \cup
    {Request("POST", "ok", e, ReturnsRecords, ReturnsWageInputs[w],
             [NoPeriods EXCEPT !.k = YearWindow], {}, AgeInputs[a], InflationInputs[i]) :
        e \in ReturnsEndpoints, w \in 1..Len(ReturnsWageInputs),
        a \in 1..Len(AgeInputs), i \in 1..Len(InflationInputs)}
    \cup
    {Request("POST", "ok", e, <<RawRecords[r]>>, ReturnsWageInputs[w], periods, {},
             AgeInputs[1], InflationInputs[1]) :
        e \in ReturnsEndpoints, r \in 1..Len(RawRecords), w \in 1..2,
        periods \in {NoPeriods, GoodPeriods, [NoPeriods EXCEPT !.k = YearWindow]}}
    \cup
    {Request("POST", "ok", e, <<>>, ReturnsWageInputs[1], NoPeriods, {f},
             AgeInputs[1], InflationInputs[1]) :
        e \in ReturnsEndpoints, f \in {"transactions", "q", "p", "k"}}
    \cup
    {Request("POST", "ok", p.endpoint, p.records, p.wage, [q |-> p.q, p |-> p.p, k |-> p.k],
             p.notArray, Undefined, Undefined) : p \in Payloads(1)}

\* The requests taken after the first one.
FollowUpRequests ==
    {Request(m, "ok", e, <<>>, Undefined, NoPeriods, {}, Undefined, Undefined) :
        m \in {"GET", "PUT"}, e \in {"performance", "ui"}}
    \cup
    {Request("POST", "invalid", "parse", <<>>, Undefined, NoPeriods, {}, Undefined, Undefined)}
    \cup
    {Request("POST", "ok", "nps", <<RawRecords[1]>>, ReturnsWageInputs[1],
             [NoPeriods EXCEPT !.k = YearWindow], {}, AgeInputs[1], InflationInputs[1])}

\* The requests a client sends, by the number of requests taken before
Arrivals(taken) == IF taken = 0 THEN ServerRequests ELSE FollowUpRequests

\* The requests taken so far, answered or waiting, while no call of the
\* engine runs
Taken == requestCount + Len(waiting)

\* GET /health and GET /blackrock/challenge/v1/performance: the answer and the
\* finally block in the turn in which the request is taken
AnswerGet ==
    /\ pc = "idle"
    /\ Taken < MaxRequests
    /\ \E request \in Arrivals(Taken) :
        /\ request.method = "GET" /\ request.endpoint \in GetRoutes \ {"ui"}
        /\ payload' = request
        /\ response' = [status |-> 200, body |-> GetBody(request.endpoint, requestCount)]
    /\ requestCount' = requestCount + 1
    /\ UNCHANGED <<pc, waiting, uiHtml, rulesVars, codecVars, idx, invalid, duplicates, seen>>

\* 405: the throw, the catch and the finally block in the turn in which the
\* request is taken
RejectMethod ==
    /\ pc = "idle"
    /\ Taken < MaxRequests
    /\ \E request \in Arrivals(Taken) :
        /\ request.method # "POST"
        /\ ~DispatchOf(request).ok
        /\ payload' = request
        /\ response' = ErrorResponse(DispatchOf(request))
    /\ requestCount' = requestCount + 1
    /\ UNCHANGED <<pc, waiting, uiHtml, rulesVars, codecVars, idx, invalid, duplicates, seen>>

\* GET / or /index.html: await uiHtmlPromise.  The handler returns to the
\* event loop whether the page is read or not.
AwaitHtml ==
    /\ pc = "idle"
    /\ Taken < MaxRequests
    /\ \E request \in Arrivals(Taken) :
        /\ request.method = "GET" /\ request.endpoint = "ui"
        /\ waiting' = Append(waiting, request)
    /\ UNCHANGED <<pc, requestCount, uiHtml, rulesVars, codecVars, batchVars>>

\* A POST request: await readJsonBody(req)
AwaitBody ==
    /\ pc = "idle"
    /\ Taken < MaxRequests
    /\ \E request \in Arrivals(Taken) :
        /\ request.method = "POST"
        /\ waiting' = Append(waiting, request)
    /\ UNCHANGED <<pc, requestCount, uiHtml, rulesVars, codecVars, batchVars>>

RECURSIVE AwaitingHtml(_)
AwaitingHtml(requests) ==
    IF requests = <<>> THEN <<>>
    ELSE IF Head(requests).method = "GET" THEN <<Head(requests)>> \o AwaitingHtml(Tail(requests))
    ELSE AwaitingHtml(Tail(requests))
RECURSIVE AwaitingBody(_)
AwaitingBody(requests) ==
    IF requests = <<>> THEN <<>>
    ELSE IF Head(requests).method = "POST"
    THEN <<Head(requests)>> \o AwaitingBody(Tail(requests))
    ELSE AwaitingBody(Tail(requests))

HtmlWritten(pages) ==
    IF pages = <<>> THEN UNCHANGED <<payload, response>>
    ELSE /\ payload' = pages[Len(pages)]
         /\ response' = [status |-> 200, body |-> GetBody("ui", requestCount)]

\* The handlers that await uiHtmlPromise go on in the order in which they
\* were taken, in one turn: writeHtml and the finally block of each
ResumeHtml ==
    /\ HtmlWritten(AwaitingHtml(waiting))
    /\ requestCount' = requestCount + Len(AwaitingHtml(waiting))
    /\ waiting' = AwaitingBody(waiting)

\* uiHtmlPromise is fulfilled: every handler that awaits it goes on
UiHtmlRead ==
    /\ pc = "idle"
    /\ uiHtml = "pending"
    /\ uiHtml' = "read"
    /\ ResumeHtml
    /\ UNCHANGED <<pc, rulesVars, codecVars, idx, invalid, duplicates, seen>>

\* A handler that awaits the fulfilled uiHtmlPromise goes on after the turn
\* in which its request was taken
HtmlDue == uiHtml = "read" /\ AwaitingHtml(waiting) # <<>>
WriteHtml ==
    /\ pc = "idle"
    /\ HtmlDue
    /\ ResumeHtml
    /\ UNCHANGED <<pc, uiHtml, rulesVars, codecVars, idx, invalid, duplicates, seen>>

\* The body of a waiting request has come: 413, 400 or 404, the catch and the
\* finally block.  A handler that awaits the fulfilled uiHtmlPromise goes on
\* first: its continuation was queued before the body promise was settled.
RejectRequest ==
    /\ pc = "idle"
    /\ ~HtmlDue
    /\ \E n \in 1..Len(waiting) :
        /\ waiting[n].method = "POST"
        /\ ~DispatchOf(waiting[n]).ok
        /\ payload' = waiting[n]
        /\ response' = ErrorResponse(DispatchOf(waiting[n]))
        /\ waiting' = Without(waiting, n - 1)
    /\ requestCount' = requestCount + 1
    /\ UNCHANGED <<pc, uiHtml, rulesVars, codecVars, idx, invalid, duplicates, seen>>

\* The body of a waiting request has come and its route is taken: the call
\* of the engine begins
Route ==
    /\ pc = "idle"
    /\ ~HtmlDue
    /\ \E n \in 1..Len(waiting) :
        /\ waiting[n].method = "POST"
        /\ DispatchOf(waiting[n]).ok
        /\ payload' = BodyOf(waiting[n])
        /\ pc' = IF waiting[n].endpoint = "validator" THEN "wage"
                 ELSE IF waiting[n].endpoint \in ReturnsEndpoints THEN "returns"
                 ELSE waiting[n].endpoint
        /\ waiting' = Without(waiting, n - 1)
    /\ idx' = 0 /\ invalid' = <<>> /\ duplicates' = <<>> /\ seen' = <<>>
    /\ response' = None
    /\ transactions' = <<>> /\ qPeriods' = <<>> /\ pPeriods' = <<>> /\ kPeriods' = <<>>
    /\ savingsByDates' = <<>>
    /\ UNCHANGED <<requestCount, uiHtml, codecVars>>

ReturnsEnvelopeDone(envelope) ==
    IF envelope.ok
    THEN pc' = "filter" /\ UNCHANGED response
    ELSE pc' = "done" /\ response' = ErrorResponse(envelope)

\* calculateReturns: parseAge, normalizeInflation, the wage
ReturnsEnvelope ==
    /\ pc = "returns"
    /\ ReturnsEnvelopeDone(ReturnsEnvelopeOf(payload.endpoint, parseAge(payload.age),
                                             normalizeInflation(payload.inflation),
                                             parseNumericField(payload.wage, <<"wage">>)))
    /\ UNCHANGED <<serverVars, rulesVars, codecVars, payload, idx, invalid, duplicates, seen>>

\* calculateReturns: the 200 response
ReturnsRespond ==
    /\ pc = "totals"
    /\ payload.endpoint \in ReturnsEndpoints
    /\ response' \in
         {[status |-> 200, body |-> body] :
            body \in ReturnsBodies(payload.endpoint,
                                   ReturnsEnvelopeOf(payload.endpoint, parseAge(payload.age),
                                                     normalizeInflation(payload.inflation),
                                                     parseNumericField(payload.wage,
                                                                       <<"wage">>)).value,
                                   transactions, savingsByDates)}
    /\ pc' = "done"
    /\ UNCHANGED <<serverVars, rulesVars, codecVars, payload, idx, invalid, duplicates, seen>>

InitServer ==
    /\ IdleServer
    /\ pc = "idle"
    /\ IdleBatch /\ IdleRules /\ IdleCodec
NextServer ==
    \/ AnswerGet \/ RejectMethod \/ AwaitHtml \/ AwaitBody \/ UiHtmlRead \/ WriteHtml
    \/ RejectRequest \/ Route \/ WriteJson
    \/ RejectArray
    \/ ParseExpense \/ ParseRespond
    \/ ValidateWage \/ ValidateRecord \/ ValidateRespond
    \/ ReturnsEnvelope
    \/ FilterRecord \/ FilterPeriods
    \/ ApplyQ \/ ApplyP \/ BuildSavings \/ FilterRespond \/ ReturnsRespond
SpecServer == InitServer /\ [][NextServer]_vars

\* ------------------------------------------------------------------------
\* The filter test of the repository on its server
\* ------------------------------------------------------------------------

\* The tests the server of the test file has answered when the filter test
\* begins: GET /, transactions:parse, transactions:validator.
TestsBeforeFilter == 3

\* The parse request of the test is taken: the handler runs to
\* await readJsonBody(req)
FixtureParse ==
    /\ pc = "idle"
    /\ waiting = <<>>
    /\ payload = None
    /\ \E rs \in FixtureLists :
        waiting' = <<Request("POST", "ok", "parse", rs, Undefined, NoPeriods, {},
                             Undefined, Undefined)>>
    /\ UNCHANGED <<pc, requestCount, uiHtml, rulesVars, codecVars, batchVars>>

\* The filter request of the test, once the parse request is answered:
\* transactions: parseBody.transactions, ...periods.  The handler runs to
\* await readJsonBody(req).
FixtureFilter ==
    /\ pc = "idle"
    /\ waiting = <<>>
    /\ payload # None
    /\ payload.endpoint = "parse"
    /\ response.status = 200
    /\ waiting' = <<Request("POST", "ok", "filter",
                            [n \in 1..Len(response.body.transactions) |->
                                RawOfSerialized(response.body.transactions[n])],
                            Undefined, samplePeriods, {}, Undefined, Undefined)>>
    /\ UNCHANGED <<pc, requestCount, uiHtml, rulesVars, codecVars, batchVars>>

\* The server of the test file at the start of the filter test, run alone or
\* after the tests before it.  The page is read when GET / has been answered;
\* on a new server readFile may or may not have ended.
InitFixture ==
    /\ requestCount \in {0, TestsBeforeFilter}
    /\ waiting = <<>>
    /\ uiHtml \in IF requestCount = 0 THEN {"pending", "read"} ELSE {"read"}
    /\ pc = "idle"
    /\ IdleBatch /\ IdleRules /\ IdleCodec
NextFixture ==
    \/ UiHtmlRead
    \/ FixtureParse \/ Route
    \/ ParseExpense \/ ParseRespond
    \/ WriteJson \/ FixtureFilter
    \/ FilterRecord \/ FilterPeriods
    \/ ApplyQ \/ ApplyP \/ BuildSavings \/ FilterRespond
SpecFixture == InitFixture /\ [][NextFixture]_vars

====
